---------------------------- MODULE Spec2Model ----------------------------
(***************************************************************************)
(* A model of the JIRA test-automation MCP server: the ticket client       *)
(* (jira_service.py), the requirement extractor and document renderer      *)
(* (test_generator.py) and the tool handlers (server.py).                  *)
(*                                                                         *)
(* Text is a sequence of one-character strings, so that len(), slicing,    *)
(* strip(), substring tests and the regular expressions of the source are  *)
(* computed on characters as Python computes them.                         *)
(***************************************************************************)
EXTENDS Integers, Sequences, FiniteSets, TLC

(***************************************************************************)
(* Characters and strings                                                  *)
(***************************************************************************)
NL == "\n"
SP == " "

\* str.lower() / re.IGNORECASE on the letters the model's texts use
Lower(c) ==
    CASE c = "A" -> "a"
      [] c = "B" -> "b"
      [] c = "C" -> "c"
      [] c = "D" -> "d"
      [] c = "E" -> "e"
      [] c = "F" -> "f"
      [] c = "G" -> "g"
      [] c = "H" -> "h"
      [] c = "I" -> "i"
      [] c = "J" -> "j"
      [] c = "K" -> "k"
      [] c = "L" -> "l"
      [] c = "M" -> "m"
      [] c = "N" -> "n"
      [] c = "O" -> "o"
      [] c = "P" -> "p"
      [] c = "Q" -> "q"
      [] c = "R" -> "r"
      [] c = "S" -> "s"
      [] c = "T" -> "t"
      [] c = "U" -> "u"
      [] c = "V" -> "v"
      [] c = "W" -> "w"
      [] c = "X" -> "x"
      [] c = "Y" -> "y"
      [] c = "Z" -> "z"
      [] OTHER -> c

\* \s of the re module, on the characters the model's texts use
IsSpace(c) == c \in {SP, NL}

RECURSIVE LStrip(_)
LStrip(s) ==
    IF s = <<>> THEN <<>>
    ELSE IF IsSpace(Head(s)) THEN LStrip(Tail(s)) ELSE s

RECURSIVE RStrip(_)
RStrip(s) ==
    IF s = <<>> THEN <<>>
    ELSE IF IsSpace(s[Len(s)]) THEN RStrip(SubSeq(s, 1, Len(s) - 1)) ELSE s

\* str.strip()
Strip(s) == RStrip(LStrip(s))

\* s[:n]
Take(s, n) == IF Len(s) <= n THEN s ELSE SubSeq(s, 1, n)

\* str.lower()
LowerStr(s) == [i \in 1..Len(s) |-> Lower(s[i])]

\* "\n".join(lines)
RECURSIVE JoinLines(_)
JoinLines(lines) ==
    IF lines = <<>> THEN <<>>
    ELSE IF Len(lines) = 1 THEN lines[1]
    ELSE lines[1] \o << NL >> \o JoinLines(Tail(lines))

\* `sub in s`
Contains(s, sub) ==
    \E i \in 1..(Len(s) - Len(sub) + 1) : SubSeq(s, i, i + Len(sub) - 1) = sub

(***************************************************************************)
(* Regular expressions.  A pattern is a sequence of items, matched by      *)
(* backtracking in the priority order of the re module:                    *)
(*   lit   a literal, compared case-insensitively (re.IGNORECASE)          *)
(*   ws1   \s+  greedy                                                     *)
(*   ws0   \s*  greedy                                                     *)
(*   opt   c?   greedy, for [s]? and :?                                    *)
(*   lazy  (.*?) with re.DOTALL, captured as group g (g = 0: no group)     *)
(*   eol   (?:\n|$)     (n = 1)   or   (?:\n\n|$)   (n = 2)                *)
(***************************************************************************)
Lit(w)   == [t |-> "lit", w |-> w]
Ws1      == [t |-> "ws1"]
Ws0      == [t |-> "ws0"]
Opt(c)   == [t |-> "opt", c |-> c]
Lazy(g)  == [t |-> "lazy", g |-> g]
Eol(n)   == [t |-> "eol", n |-> n]

NoMatch == [ok |-> FALSE]

\* $ without re.MULTILINE: at the end, or before a newline that ends the string
AtEnd(s, p) == p = Len(s) + 1 \/ (p = Len(s) /\ s[p] = NL)

\* the number of whitespace characters of s from position p on
RECURSIVE SpaceRun(_, _)
SpaceRun(s, p) ==
    IF p <= Len(s) /\ IsSpace(s[p]) THEN 1 + SpaceRun(s, p + 1) ELSE 0

LitAt(s, p, w) ==
    /\ p + Len(w) - 1 <= Len(s)
    /\ \A i \in 1..Len(w) : Lower(s[p + i - 1]) = w[i]

RECURSIVE MatchFrom(_, _, _, _, _)
RECURSIVE TryGreedy(_, _, _, _, _, _)
RECURSIVE TryLazy(_, _, _, _, _, _)

\* the items re[k..] against s from position p, with the groups caps so far
MatchFrom(re, k, s, p, caps) ==
    IF k > Len(re) THEN [ok |-> TRUE, end |-> p, caps |-> caps]
    ELSE LET it == re[k] IN
      CASE it.t = "lit" ->
             IF LitAt(s, p, it.w) THEN MatchFrom(re, k + 1, s, p + Len(it.w), caps)
             ELSE NoMatch
        [] it.t = "ws1" ->
             IF SpaceRun(s, p) = 0 THEN NoMatch
             ELSE TryGreedy(re, k, s, p, SpaceRun(s, p), caps)
        [] it.t = "ws0" -> TryGreedy(re, k, s, p, SpaceRun(s, p), caps)
        [] it.t = "opt" ->
             LET with == IF p <= Len(s) /\ Lower(s[p]) = it.c
                         THEN MatchFrom(re, k + 1, s, p + 1, caps) ELSE NoMatch
             IN  IF with.ok THEN with ELSE MatchFrom(re, k + 1, s, p, caps)
        [] it.t = "lazy" -> TryLazy(re, k, s, p, 0, caps)
        [] it.t = "eol" ->
             LET nl == IF /\ p + it.n - 1 <= Len(s)
                          /\ \A i \in 0..(it.n - 1) : s[p + i] = NL
                       THEN MatchFrom(re, k + 1, s, p + it.n, caps) ELSE NoMatch
             IN  IF nl.ok THEN nl
                 ELSE IF AtEnd(s, p) THEN MatchFrom(re, k + 1, s, p, caps)
                 ELSE NoMatch

\* a greedy whitespace item taking j characters, then j-1, ... (ws1 stops at 1)
TryGreedy(re, k, s, p, j, caps) ==
    LET r == MatchFrom(re, k + 1, s, p + j, caps) IN
    IF r.ok THEN r
    ELSE IF j = 0 \/ (j = 1 /\ re[k].t = "ws1") THEN NoMatch
    ELSE TryGreedy(re, k, s, p, j - 1, caps)

\* a lazy .*? taking j characters, then j+1, ...
TryLazy(re, k, s, p, j, caps) ==
    IF p + j > Len(s) + 1 THEN NoMatch
    ELSE LET g  == re[k].g
             c2 == IF g = 0 THEN caps
                   ELSE [caps EXCEPT ![g] = SubSeq(s, p, p + j - 1)]
             r  == MatchFrom(re, k + 1, s, p + j, c2)
         IN  IF r.ok THEN r ELSE TryLazy(re, k, s, p, j + 1, caps)

\* re.finditer(re, s): the non-overlapping matches, leftmost first.  Every
\* pattern of the source starts with a literal, so no match is empty.
NoGroups == << <<>>, <<>>, <<>> >>

RECURSIVE FindIter(_, _, _)
FindIter(re, s, pos) ==
    LET starts == {i \in pos..Len(s) : MatchFrom(re, 1, s, i, NoGroups).ok} IN
    IF starts = {} THEN <<>>
    ELSE LET first == CHOOSE i \in starts : \A j \in starts : i <= j
             m     == MatchFrom(re, 1, s, first, NoGroups)
         IN  <<m>> \o FindIter(re, s, m.end)

\* scenario_count <= 2
LowMaxScenarios == 2
\* desc_length < 500
LowDescLength == 500
\* scenario_count <= 5
MediumMaxScenarios == 5
\* desc_length < 1500
MediumDescLength == 1500
\* len(formatted) > 500, formatted[:500]
DescriptionCut == 500
\* discussions[:5]
MaxPlanDiscussions == 5
\* list(set(data_requirements))[:10]
MaxDataRequirements == 10
\* discussion_lines[:3]
MaxFeatureDiscussions == 3

(***************************************************************************)
(* String literals of test_generator.py                                    *)
(***************************************************************************)
\* "Scenario: "
ScenarioPrefix ==
    <<"S","c","e","n","a","r","i","o",":",SP>>
\* "User is on the application"
FallbackGiven ==
    <<"U","s","e","r",SP,"i","s",SP,"o","n",SP,"t","h","e",SP,"a","p","p","l",
      "i","c","a","t","i","o","n">>
\* "User performs the action described in ticket"
FallbackWhen ==
    <<"U","s","e","r",SP,"p","e","r","f","o","r","m","s",SP,"t","h","e",SP,
      "a","c","t","i","o","n",SP,"d","e","s","c","r","i","b","e","d",SP,"i",
      "n",SP,"t","i","c","k","e","t">>
\* "Expected behavior occurs as per ticket description"
FallbackThen ==
    <<"E","x","p","e","c","t","e","d",SP,"b","e","h","a","v","i","o","r",SP,
      "o","c","c","u","r","s",SP,"a","s",SP,"p","e","r",SP,"t","i","c","k",
      "e","t",SP,"d","e","s","c","r","i","p","t","i","o","n">>
\* "Expected behavior should match the discussion requirement"
DiscussionThen ==
    <<"E","x","p","e","c","t","e","d",SP,"b","e","h","a","v","i","o","r",SP,
      "s","h","o","u","l","d",SP,"m","a","t","c","h",SP,"t","h","e",SP,"d",
      "i","s","c","u","s","s","i","o","n",SP,"r","e","q","u","i","r","e","m",
      "e","n","t">>

\* "Verify precondition: "
VerifyPreconditionPrefix ==
    <<"V","e","r","i","f","y",SP,"p","r","e","c","o","n","d","i","t","i","o",
      "n",":",SP>>
\* "Precondition is met and ready for testing"
PreconditionExpected ==
    <<"P","r","e","c","o","n","d","i","t","i","o","n",SP,"i","s",SP,"m","e",
      "t",SP,"a","n","d",SP,"r","e","a","d","y",SP,"f","o","r",SP,"t","e","s",
      "t","i","n","g">>
\* "Action completes without errors"
ActionExpected ==
    <<"A","c","t","i","o","n",SP,"c","o","m","p","l","e","t","e","s",SP,"w",
      "i","t","h","o","u","t",SP,"e","r","r","o","r","s">>
\* "Clean up test data and restore initial state"
CleanupAction ==
    <<"C","l","e","a","n",SP,"u","p",SP,"t","e","s","t",SP,"d","a","t","a",SP,
      "a","n","d",SP,"r","e","s","t","o","r","e",SP,"i","n","i","t","i","a",
      "l",SP,"s","t","a","t","e">>
\* "System returns to original state"
CleanupExpected ==
    <<"S","y","s","t","e","m",SP,"r","e","t","u","r","n","s",SP,"t","o",SP,
      "o","r","i","g","i","n","a","l",SP,"s","t","a","t","e">>

(***************************************************************************)
(* Requirement extractor (test_generator.py)                               *)
(***************************************************************************)
\* class TestScenario
TestScenario(scenario, given, when, then) ==
    [scenario |-> scenario, given |-> given, when |-> when, then |-> then]

\* r"given\s+(.*?)(?:\n|$).*?when\s+(.*?)(?:\n|$).*?then\s+(.*?)(?:\n|$)"
gwt_pattern ==
    << Lit(<<"g","i","v","e","n">>), Ws1, Lazy(1), Eol(1), Lazy(0),
       Lit(<<"w","h","e","n">>),  Ws1, Lazy(2), Eol(1), Lazy(0),
       Lit(<<"t","h","e","n">>),  Ws1, Lazy(3), Eol(1) >>

\* the seven patterns of test_keywords, in their order
test_keywords ==
    << << Lit(<<"t","e","s","t">>), Ws1, Lit(<<"c","a","s","e">>), Opt("s"), Opt(":"), Ws0,
            Lazy(1), Eol(2) >>,
       << Lit(<<"s","c","e","n","a","r","i","o">>), Opt("s"), Opt(":"), Ws0, Lazy(1), Eol(2) >>,
       << Lit(<<"e","d","g","e">>), Ws1, Lit(<<"c","a","s","e">>), Opt("s"), Opt(":"), Ws0,
               Lazy(1), Eol(2) >>,
       << Lit(<<"a","c","c","e","p","t","a","n","c","e">>), Ws1, Lit(<<"c","r","i","t","e","r",
               "i","a">>), Opt(":"), Ws0, Lazy(1), Eol(2) >>,
       << Lit(<<"s","h","o","u","l","d">>), Ws1, Lazy(1), Eol(1) >>,
       << Lit(<<"v","e","r","i","f","y">>), Ws1, Lazy(1), Eol(1) >>,
       << Lit(<<"e","n","s","u","r","e">>), Ws1, Lazy(1), Eol(1) >> >>

\* the scenarios of one pattern's matches: a match counts when its stripped
\* group is longer than 10 characters
RECURSIVE DiscussionMatches(_)
DiscussionMatches(ms) ==
    IF ms = <<>> THEN <<>>
    ELSE LET scenario_text == Strip(Head(ms).caps[1]) IN
         (IF scenario_text # <<>> /\ Len(scenario_text) > 10
          THEN << TestScenario(
                    <<"S","c","e","n","a","r","i","o",SP,"f","r","o","m",SP,"d","i","s","c",
                            "u","s","s","i","o","n",":",SP>> \o Take(scenario_text, 100),
                    << FallbackGiven >>,
                    << <<"U","s","e","r",SP,"p","e","r","f","o","r","m","s",":",
                            SP>> \o Take(scenario_text, 150) >>,
                    << DiscussionThen >>) >>
          ELSE <<>>)
         \o DiscussionMatches(Tail(ms))

RECURSIVE DiscussionPatterns(_, _)
DiscussionPatterns(k, discussion_summary) ==
    IF k > Len(test_keywords) THEN <<>>
    ELSE DiscussionMatches(FindIter(test_keywords[k], discussion_summary, 1))
         \o DiscussionPatterns(k + 1, discussion_summary)

\* a list without the later copies of its entries
RECURSIVE DropRepeats(_)
DropRepeats(s) ==
    IF s = <<>> THEN <<>>
    ELSE LET front == DropRepeats(SubSeq(s, 1, Len(s) - 1)) IN
         IF \E j \in 1..Len(front) : front[j] = s[Len(s)]
         THEN front ELSE Append(front, s[Len(s)])

\* a variant that keeps one scenario of each kind
ExtractScenariosFromDiscussionsDistinct(discussion_summary, summary) ==
    DropRepeats(DiscussionPatterns(1, discussion_summary))

\* TestGeneratorService._extract_scenarios_from_discussions
ExtractScenariosFromDiscussions(discussion_summary, summary) ==
    DiscussionPatterns(1, discussion_summary)

\* a variant that drops an entry whose stripped text is empty
RECURSIVE GwtScenariosDropEmpty(_, _)
GwtScenariosDropEmpty(ms, summary) ==
    IF ms = <<>> THEN <<>>
    ELSE LET entry(g) == IF Strip(g) = <<>> THEN <<>> ELSE << Strip(g) >> IN
         << TestScenario(ScenarioPrefix \o summary,
                         entry(Head(ms).caps[1]),
                         entry(Head(ms).caps[2]),
                         entry(Head(ms).caps[3])) >>
         \o GwtScenariosDropEmpty(Tail(ms), summary)

\* a variant that keeps the groups as matched, without strip
RECURSIVE GwtScenariosUnstripped(_, _)
GwtScenariosUnstripped(ms, summary) ==
    IF ms = <<>> THEN <<>>
    ELSE << TestScenario(ScenarioPrefix \o summary,
                         << Head(ms).caps[1] >>,
                         << Head(ms).caps[2] >>,
                         << Head(ms).caps[3] >>) >>
         \o GwtScenariosUnstripped(Tail(ms), summary)

RECURSIVE GwtScenarios(_, _)
GwtScenarios(ms, summary) ==
    IF ms = <<>> THEN <<>>
    ELSE << TestScenario(ScenarioPrefix \o summary,
                         << Strip(Head(ms).caps[1]) >>,
                         << Strip(Head(ms).caps[2]) >>,
                         << Strip(Head(ms).caps[3]) >>) >>
         \o GwtScenarios(Tail(ms), summary)

\* the fallback scenario of _extract_test_scenarios
FallbackScenario(summary) ==
    TestScenario(<<"T","e","s","t",SP>> \o summary,
                 << FallbackGiven >>, << FallbackWhen >>, << FallbackThen >>)

\* a variant without the fallback scenario
ExtractTestScenariosNoFallback(description, summary, discussion_summary) ==
    LET combined_text == description \o << NL, NL >> \o discussion_summary
    IN  GwtScenarios(FindIter(gwt_pattern, combined_text, 1), summary)
        \o (IF discussion_summary # <<>>
            THEN ExtractScenariosFromDiscussions(discussion_summary, summary)
            ELSE <<>>)

\* TestGeneratorService._extract_test_scenarios
ExtractTestScenarios(description, summary, discussion_summary) ==
    LET combined_text == description \o << NL, NL >> \o discussion_summary
        primary    == GwtScenarios(FindIter(gwt_pattern, combined_text, 1), summary)
        discussion == IF discussion_summary # <<>>
                      THEN ExtractScenariosFromDiscussions(discussion_summary, summary)
                      ELSE <<>>
        scenarios  == primary \o discussion
    IN  IF scenarios = <<>> THEN << FallbackScenario(summary) >> ELSE scenarios

\* the if-chain of _calculate_complexity, with `<` turned into `<=`
ComplexityInclusive(scenario_count, desc_length) ==
    IF scenario_count <= LowMaxScenarios /\ desc_length <= LowDescLength
    THEN "low"
    ELSE IF scenario_count <= MediumMaxScenarios /\ desc_length <= MediumDescLength
    THEN "medium"
    ELSE "high"

\* the if-chain of _calculate_complexity
Complexity(scenario_count, desc_length) ==
    IF scenario_count <= LowMaxScenarios /\ desc_length < LowDescLength
    THEN "low"
    ELSE IF scenario_count <= MediumMaxScenarios /\ desc_length < MediumDescLength
    THEN "medium"
    ELSE "high"

\* TestGeneratorService._calculate_complexity
CalculateComplexity(scenarios, description) ==
    Complexity(Len(scenarios), Len(description))

\* TestGeneratorService.analyze_requirements
AnalyzeRequirements(tk) ==
    LET description        == tk.fields.description
        summary            == tk.fields.summary
        discussion_summary == tk.discussion_summary
        scenarios == ExtractTestScenarios(description, summary, discussion_summary)
    IN  [ticket_key           |-> tk.key,
         summary              |-> summary,
         discussion_summary   |-> discussion_summary,
         test_scenarios       |-> scenarios,
         estimated_test_count |-> Len(scenarios),
         complexity           |-> CalculateComplexity(scenarios, description)]

(***************************************************************************)
(* Document renderer (test_generator.py): manual test plans                *)
(***************************************************************************)
\* str.split("\n\n")
RECURSIVE SplitParagraphs(_)
SplitParagraphs(s) ==
    LET cuts == {i \in 1..(Len(s) - 1) : s[i] = NL /\ s[i + 1] = NL} IN
    IF cuts = {} THEN << s >>
    ELSE LET i == CHOOSE c \in cuts : \A d \in cuts : c <= d IN
         << SubSeq(s, 1, i - 1) >> \o SplitParagraphs(SubSeq(s, i + 2, Len(s)))

\* TestGeneratorService._expand_action_step
ExpandActionStep(action) ==
    IF Len(action) < 50 THEN action \o <<SP,"(","P","r","o","v","i","d","e",SP,"d","e","t","a",
            "i","l","e","d", SP,"s","t","e","p","s",SP,"a","s",SP,"a","p","p","l","i","c","a",
            "b", "l","e",")">> ELSE action

\* TestGeneratorService._format_description; the model's texts hold no "\r\n"
FormatDescription(description) ==
    IF description = <<>> THEN <<"N","o",SP,"d","e","t","a","i","l","e","d",SP,"d","e","s","c",
            "r","i", "p","t","i","o","n",SP,"a","v","a","i","l","a","b","l","e",".",SP,"R", "e",
            "f","e","r",SP,"t","o",SP,"t","i","c","k","e","t",SP,"s","u","m", "m","a","r","y",
            ".">>
    ELSE LET formatted == Strip(description) IN
         IF Len(formatted) > DescriptionCut
         THEN SubSeq(formatted, 1, DescriptionCut) \o <<".",".",".",NL,"[","S","e","e",SP,"f",
                 "u","l","l",SP,"d","e","s","c", "r","i","p","t","i","o","n",SP,"i","n",SP,"J",
                 "I","R","A",SP,"t","i", "c","k","e","t","]">>
         ELSE formatted

RECURSIVE DiscussionBullets(_)
DiscussionBullets(discussions) ==
    IF discussions = <<>> THEN <<>>
    ELSE (IF Strip(Head(discussions)) # <<>>
          THEN << <<SP,SP,"-",SP>> \o Strip(Head(discussions)) >> ELSE <<>>)
         \o DiscussionBullets(Tail(discussions))

\* TestGeneratorService._format_discussion_context
FormatDiscussionContext(discussion_summary) ==
    IF discussion_summary = <<>> THEN <<"N","o",SP,"a","d","d","i","t","i","o","n","a","l",SP,
            "d","i","s","c", "u","s","s","i","o","n","s",SP,"a","v","a","i","l","a","b","l","e",
            ".">>
    ELSE LET discussions == SplitParagraphs(discussion_summary)
             formatted_discussions ==
                 DiscussionBullets(SubSeq(discussions, 1,
                     IF Len(discussions) < MaxPlanDiscussions
                     THEN Len(discussions) ELSE MaxPlanDiscussions))
         IN  IF formatted_discussions # <<>> THEN JoinLines(formatted_discussions)
             ELSE <<"N","o",SP,"s","i","g","n","i","f","i","c","a","n","t",SP,"d","i","s", "c",
                     "u","s","s","i","o","n",SP,"p","o","i","n","t","s",".">>

\* TestGeneratorService._get_current_date: the clock's day, formatted
\* "%B %d, %Y"; two days give two strings
GetCurrentDate(day) == << "date", day >>

(***************************************************************************)
(* list(set(xs)): the entries of xs once each, in the order of the          *)
(* process's hash table, which depends on the hash seed of the process.    *)
(***************************************************************************)
Alphabet ==
    << SP, NL, ":", ".", ",", "-", "_", "(", ")", "[", "]",
       "a","b","c","d","e","f","g","h","i","j","k","l","m",
       "n","o","p","q","r","s","t","u","v","w","x","y","z",
       "A","B","C","D","E","F","G","H","I","J","K","L","M",
       "N","O","P","Q","R","S","T","U","V","W","X","Y","Z",
       "0","1","2","3","4","5","6","7","8","9" >>

CodeOf ==
    [c \in {Alphabet[i] : i \in 1..Len(Alphabet)} |->
        CHOOSE i \in 1..Len(Alphabet) : Alphabet[i] = c]

CharCode(c) == CodeOf[c]

\* hash(s) under the seed
RECURSIVE StrHash(_, _)
StrHash(s, seed) ==
    IF s = <<>> THEN seed
    ELSE (StrHash(SubSeq(s, 1, Len(s) - 1), seed) * (31 + seed)
            + CharCode(s[Len(s)])) % 1009

\* a total order on strings, for entries of equal hash
RECURSIVE StrLess(_, _)
StrLess(a, b) ==
    IF b = <<>> THEN FALSE
    ELSE IF a = <<>> THEN TRUE
    ELSE IF Head(a) # Head(b) THEN CharCode(Head(a)) < CharCode(Head(b))
    ELSE StrLess(Tail(a), Tail(b))

\* the entries of S by hash table slot: by hash h, then by the order above
RECURSIVE BySlot(_, _)
BySlot(S, h) ==
    IF S = {} THEN <<>>
    ELSE LET first == CHOOSE a \in S : \A b \in S \ {a} :
                          \/ h[a] < h[b]
                          \/ h[a] = h[b] /\ StrLess(a, b)
         IN  << first >> \o BySlot(S \ {first}, h)

SetToList(S, seed) == BySlot(S, [a \in S |-> StrHash(a, seed)])

Range(xs) == { xs[i] : i \in 1..Len(xs) }

data_keywords ==
    << <<"e","m","a","i","l">>, <<"u","s","e","r","n","a","m","e">>, <<"p","a","s","s","w","o",
            "r","d">>, <<"n","a","m","e">>, <<"a","d","d","r","e","s","s">>,
       <<"p","h","o","n","e">>, <<"d","a","t","e">>, <<"n","u","m","b","e","r">>, <<"i","d">>,
               <<"c","o","d","e">> >>

RECURSIVE KeywordRequirements(_, _)
KeywordRequirements(k, description_lower) ==
    IF k > Len(data_keywords) THEN <<>>
    ELSE (IF Contains(description_lower, data_keywords[k])
          THEN << <<"V","a","l","i","d",SP,"t","e","s","t",SP>> \o data_keywords[k] \o <<SP,"d",
                  "a","t","a">> >> ELSE <<>>)
         \o KeywordRequirements(k + 1, description_lower)

RECURSIVE StepRequirements(_)
StepRequirements(test_steps) ==
    IF test_steps = <<>> THEN <<>>
    ELSE LET action_lower == LowerStr(Head(test_steps).action) IN
         (IF \/ Contains(action_lower, <<"d","a","t","a">>)
             \/ Contains(action_lower, <<"v","a","l","u","e">>)
             \/ Contains(action_lower, <<"i","n","p","u","t">>)
          THEN << <<"D","a","t","a",SP,"f","o","r",":",SP>> \o Take(Head(test_steps).action, 60) >>
          ELSE <<>>)
         \o StepRequirements(Tail(test_steps))

\* the list before de-duplication (data_requirements at the return statement)
DataRequirements(test_steps, description) ==
    << <<"V","a","l","i","d",SP,"u","s","e","r",SP,"c","r","e","d","e","n","t", "i","a","l","s",
            SP,"f","o","r",SP,"t","e","s","t",SP,"e","x","e","c", "u","t","i","o","n">>, <<"T",
            "e","s","t",SP,"e","n","v","i","r","o","n","m","e","n","t",SP,"a", "c","c","e","s",
            "s",SP,"c","o","n","f","i","g","u","r","a","t","i","o", "n">>, <<"S","a","m","p",
            "l","e",SP,"d","a","t","a",SP,"m","a","t","c","h","i", "n","g",SP,"r","e","q","u",
            "i","r","e","m","e","n","t","s",SP,"s","p", "e","c","i","f","i","c","a","t","i","o",
            "n","s">> >>
    \o KeywordRequirements(1, LowerStr(description))
    \o StepRequirements(test_steps)

\* a variant that cuts to the limit before removing duplicates
ExtractTestDataRequirementsCutFirst(test_steps, description, seed) ==
    LET cut == Take(DataRequirements(test_steps, description), MaxDataRequirements)
    IN  SetToList(Range(cut), seed)

\* TestGeneratorService._extract_test_data_requirements, in a process whose
\* hash seed is seed
ExtractTestDataRequirements(test_steps, description, seed) ==
    Take(SetToList(Range(DataRequirements(test_steps, description)), seed),
         MaxDataRequirements)


\* str(n) for n >= 0
Digit(d) == << "0", "1", "2", "3", "4", "5", "6", "7", "8", "9" >>[d + 1]

RECURSIVE IntToStr(_)
IntToStr(n) ==
    IF n < 10 THEN << Digit(n) >>
    ELSE IntToStr(n \div 10) \o << Digit(n % 10) >>

\* one entry of test_steps
TestStep(step_num, action, expected, type) ==
    [step_num |-> step_num, action |-> action, expected |-> expected,
     type |-> type]

\* a variant that starts the numbering again in each group of steps
BuildTestStepsNumberedPerGroup(scenario) ==
    LET g == Len(scenario.given)
        w == Len(scenario.when)
        t == Len(scenario.then)
    IN  [i \in 1..g |->
            TestStep(i, VerifyPreconditionPrefix \o scenario.given[i],
                     PreconditionExpected, "Precondition")]
        \o [i \in 1..w |->
            TestStep(i, ExpandActionStep(scenario.when[i]),
                     ActionExpected, "Action")]
        \o [i \in 1..t |->
            TestStep(i, <<"V","e","r","i","f","y",":",SP>> \o scenario.then[i],
                     scenario.then[i], "Validation")]
        \o << TestStep(g + w + t + 1, CleanupAction, CleanupExpected, "Cleanup") >>

\* test_steps of _create_manual_test_plan: the Precondition, Action and
\* Validation steps of the scenario, then the Cleanup step
BuildTestSteps(scenario) ==
    LET g == Len(scenario.given)
        w == Len(scenario.when)
        t == Len(scenario.then)
    IN  [i \in 1..g |->
            TestStep(i, VerifyPreconditionPrefix \o scenario.given[i],
                     PreconditionExpected, "Precondition")]
        \o [i \in 1..w |->
            TestStep(g + i, ExpandActionStep(scenario.when[i]),
                     ActionExpected, "Action")]
        \o [i \in 1..t |->
            TestStep(g + w + i, <<"V","e","r","i","f","y",":",SP>> \o scenario.then[i],
                     scenario.then[i], "Validation")]
        \o << TestStep(g + w + t + 1, CleanupAction, CleanupExpected, "Cleanup") >>

RECURSIVE StepsOfType(_, _)
StepsOfType(test_steps, type) ==
    IF test_steps = <<>> THEN <<>>
    ELSE (IF Head(test_steps).type = type THEN << Head(test_steps) >> ELSE <<>>)
         \o StepsOfType(Tail(test_steps), type)

\* TestGeneratorService._create_manual_test_plan, on the day `day` in a
\* process of hash seed `seed`.  A document is the template it is rendered
\* from and the values the template interpolates, in the template's order.
CreateManualTestPlan(ticket_key, test_number, scenario, summary, description, discussion_summary, total_tests, day, seed) ==
    LET test_steps == BuildTestSteps(scenario) IN
    [template     |-> "manual_test_plan",
     ticket_key   |-> ticket_key,
     test_number  |-> test_number,
     total_tests  |-> total_tests,
     test_name    |-> scenario.scenario,
     created_date |-> GetCurrentDate(day),
     summary      |-> summary,
     description  |-> FormatDescription(description),
     discussions  |-> IF discussion_summary # <<>>
                      THEN << FormatDiscussionContext(discussion_summary) >>
                      ELSE <<>>,
     preconditions |-> StepsOfType(test_steps, "Precondition"),
     test_steps   |-> test_steps,
     test_data    |-> ExtractTestDataRequirements(test_steps, description, seed),
     expected_results |-> StepsOfType(test_steps, "Validation")]

\* additional_scenarios of _generate_additional_test_cases; these fixed texts
\* are never cut or searched, so each is one string
additional_scenarios ==
    <<
      [name |-> "Negative Test - Invalid Input Data",
       objective |-> "Verify system handles invalid input gracefully",
       steps |-> <<
           [action |-> "Prepare invalid test data (empty, null, special characters)",
            expected |-> "Test data is prepared"],
           [action |-> "Attempt to perform the operation with invalid data",
            expected |-> "System rejects invalid input"],
           [action |-> "Verify appropriate error message is displayed",
            expected |-> "Clear error message explains the validation failure"],
           [action |-> "Verify system state remains unchanged",
            expected |-> "No data is corrupted or modified"] >>,
       type |-> "Negative"],
      [name |-> "Boundary Test - Minimum Values",
       objective |-> "Verify system behavior at minimum boundary conditions",
       steps |-> <<
           [action |-> "Identify minimum acceptable values from requirements",
            expected |-> "Boundaries are documented"],
           [action |-> "Test with minimum valid values",
            expected |-> "Operation succeeds with minimum values"],
           [action |-> "Test with values below minimum (if applicable)",
            expected |-> "System rejects or handles appropriately"],
           [action |-> "Verify data integrity at boundaries",
            expected |-> "Data is stored and displayed correctly"] >>,
       type |-> "Boundary"],
      [name |-> "Boundary Test - Maximum Values",
       objective |-> "Verify system behavior at maximum boundary conditions",
       steps |-> <<
           [action |-> "Identify maximum acceptable values from requirements",
            expected |-> "Boundaries are documented"],
           [action |-> "Test with maximum valid values",
            expected |-> "Operation succeeds with maximum values"],
           [action |-> "Test with values above maximum (if applicable)",
            expected |-> "System rejects or handles appropriately"],
           [action |-> "Verify performance and response time",
            expected |-> "System performs within acceptable limits"] >>,
       type |-> "Boundary"],
      [name |-> "Security Test - Access Control",
       objective |-> "Verify proper authorization and access controls",
       steps |-> <<
           [action |-> "Attempt operation with unauthorized user",
            expected |-> "Access is denied"],
           [action |-> "Verify appropriate error/permission message",
            expected |-> "User receives clear permission denied message"],
           [action |-> "Test with user having partial permissions",
            expected |-> "Only authorized actions are allowed"],
           [action |-> "Verify audit logs capture access attempts",
            expected |-> "Security events are logged"] >>,
       type |-> "Security"],
      [name |-> "Performance Test - Response Time",
       objective |-> "Verify system performs within acceptable time limits",
       steps |-> <<
           [action |-> "Execute operation with normal data load",
            expected |-> "Baseline performance is established"],
           [action |-> "Measure response time for the operation",
            expected |-> "Response time is within SLA requirements"],
           [action |-> "Test with increased data volume",
            expected |-> "Performance degrades gracefully"],
           [action |-> "Verify no memory leaks or resource issues",
            expected |-> "Resources are properly managed"] >>,
       type |-> "Performance"],
      [name |-> "Usability Test - User Experience",
       objective |-> "Verify user interface is intuitive and accessible",
       steps |-> <<
           [action |-> "Navigate to the feature using normal user flow",
            expected |-> "Navigation is intuitive"],
           [action |-> "Verify all UI elements are properly labeled",
            expected |-> "Labels are clear and descriptive"],
           [action |-> "Test keyboard navigation and accessibility",
            expected |-> "Feature is keyboard accessible"],
           [action |-> "Verify error messages are user-friendly",
            expected |-> "Messages guide user to resolution"] >>,
       type |-> "Usability"],
      [name |-> "Integration Test - External Dependencies",
       objective |-> "Verify proper integration with dependent systems",
       steps |-> <<
           [action |-> "Identify external system dependencies",
            expected |-> "Dependencies are documented"],
           [action |-> "Test with all dependencies available",
            expected |-> "Integration works correctly"],
           [action |-> "Test with dependency unavailable/timeout",
            expected |-> "System handles failures gracefully"],
           [action |-> "Verify error handling and retry logic",
            expected |-> "Appropriate error handling is in place"] >>,
       type |-> "Integration"],
      [name |-> "Data Validation Test - Input Constraints",
       objective |-> "Verify all input validations are properly enforced",
       steps |-> <<
           [action |-> "Test with required fields missing",
            expected |-> "Validation errors are shown"],
           [action |-> "Test with incorrect data types",
            expected |-> "Type validation works correctly"],
           [action |-> "Test with data exceeding length limits",
            expected |-> "Length constraints are enforced"],
           [action |-> "Test with SQL injection and XSS attempts",
            expected |-> "Input sanitization prevents attacks"] >>,
       type |-> "Validation"]
    >>

\* TestGeneratorService._create_additional_test_plan
CreateAdditionalTestPlan(ticket_key, test_number, scenario, description, discussion_summary, day) ==
    [template     |-> "additional_test_plan",
     ticket_key   |-> ticket_key,
     test_number  |-> test_number,
     test_name    |-> scenario.name,
     test_type    |-> scenario.type,
     objective    |-> scenario.objective,
     created_date |-> GetCurrentDate(day),
     description  |-> FormatDescription(description),
     test_steps   |-> scenario.steps]

\* TestGeneratorService._generate_additional_test_cases
GenerateAdditionalTestCases(ticket_key, description, discussion_summary, starting_index, day) ==
    [i \in 1..Len(additional_scenarios) |->
        CreateAdditionalTestPlan(ticket_key, starting_index + i - 1,
                                 additional_scenarios[i], description,
                                 discussion_summary, day)]

\* output_dir / name
PathJoin(output_dir, name) == Append(output_dir, name)

\* f"{ticket_key}_Test{idx}.txt"
PlanFileName(ticket_key, idx) ==
    ticket_key \o <<"_","T","e","s","t">> \o IntToStr(idx) \o <<".","t","x","t">>

\* one write_text call
Write(path, content) == [path |-> path, content |-> content]

\* a variant that numbers the supplementary files from the last scenario's
\* number on
ManualTestPlanWritesOffByOne(ticket, analysis, output_dir, day, seed) ==
    LET ticket_key     == analysis.ticket_key
        test_scenarios == analysis.test_scenarios
        n              == Len(test_scenarios)
    IN  [idx \in 1..n |->
            Write(PathJoin(output_dir, PlanFileName(ticket_key, idx)),
                  CreateManualTestPlan(ticket_key, idx, test_scenarios[idx],
                      analysis.summary, ticket.fields.description,
                      analysis.discussion_summary, n, day, seed))]
        \o [i \in 1..Len(additional_scenarios) |->
            Write(PathJoin(output_dir, PlanFileName(ticket_key, n + i - 1)),
                  GenerateAdditionalTestCases(ticket_key,
                      ticket.fields.description, analysis.discussion_summary,
                      n + 1, day)[i])]

\* TestGeneratorService._generate_manual_test_plans: its write_text calls, in
\* order; generated_files is the paths of the calls made
ManualTestPlanWrites(ticket, analysis, output_dir, day, seed) ==
    LET ticket_key         == analysis.ticket_key
        description        == ticket.fields.description
        summary            == analysis.summary
        discussion_summary == analysis.discussion_summary
        test_scenarios     == analysis.test_scenarios
        n                  == Len(test_scenarios)
        additional_tests   == GenerateAdditionalTestCases(ticket_key, description,
                                  discussion_summary, n + 1, day)
    IN  [idx \in 1..n |->
            Write(PathJoin(output_dir, PlanFileName(ticket_key, idx)),
                  CreateManualTestPlan(ticket_key, idx, test_scenarios[idx],
                      summary, description, discussion_summary, n, day, seed))]
        \o [i \in 1..Len(additional_tests) |->
            Write(PathJoin(output_dir, PlanFileName(ticket_key, n + i)),
                  additional_tests[i])]

(***************************************************************************)
(* Files.  write_text either writes the whole file or raises OSError and   *)
(* makes the caller raise; a write that fails leaves the file as it was.   *)
(***************************************************************************)
WriteFile(files, w) ==
    [p \in DOMAIN files \cup {w.path} |->
        IF p = w.path THEN w.content ELSE files[p]]

\* a variant that starts from an emptied directory
WriteAllIntoEmptied(files, writes) ==
    [p \in { writes[i].path : i \in 1..Len(writes) } |->
        (CHOOSE w \in { writes[i] : i \in 1..Len(writes) } : w.path = p).content]

RECURSIVE WriteAll(_, _)
WriteAll(files, writes) ==
    IF writes = <<>> THEN files
    ELSE WriteAll(WriteFile(files, Head(writes)), Tail(writes))

\* a variant that goes on with the next file after a write has failed
WritesMadeSkipFailed(writes, failAt) ==
    IF failAt = 0 THEN writes
    ELSE SubSeq(writes, 1, failAt - 1) \o SubSeq(writes, failAt + 1, Len(writes))

\* the writes made when the failAt-th one fails (failAt = 0: none fails)
WritesMade(writes, failAt) ==
    IF failAt = 0 THEN writes ELSE SubSeq(writes, 1, failAt - 1)

Paths(writes) == [i \in 1..Len(writes) |-> writes[i].path]

(***************************************************************************)
(* Document renderer: feature file, scaffolding, suite configuration,      *)
(* summary document                                                        *)
(***************************************************************************)
\* "10001"
Id10001 ==
    <<"1","0","0","0","1">>
\* "NO-9"
KeyMissing ==
    <<"N","O","-","9">>
\* ".feature"
FeatureSuffix ==
    <<".","f","e","a","t","u","r","e">>
\* "Al"
AuthorAl ==
    <<"A","l">>
\* "Given a \nwhen b\nTHEN c"
DescGwt ==
    <<"G","i","v","e","n",SP,"a",SP,NL,"w","h","e","n",SP,"b",NL,"T","H","E",
      "N",SP,"c">>
\* "should log the failure "
CommentShould ==
    <<"s","h","o","u","l","d",SP,"l","o","g",SP,"t","h","e",SP,"f","a","i",
      "l","u","r","e",SP>>

\* the comment lines of the feature file: the first 3 paragraphs of the
\* discussion summary, stripped, the empty ones left out, cut to 100
RECURSIVE FeatureDiscussionLines(_)
FeatureDiscussionLines(discussion_lines) ==
    IF discussion_lines = <<>> THEN <<>>
    ELSE (IF Strip(Head(discussion_lines)) # <<>>
          THEN << Take(Strip(Head(discussion_lines)), 100) >>
          ELSE <<>>)
         \o FeatureDiscussionLines(Tail(discussion_lines))

\* TestGeneratorService._generate_feature_file
GenerateFeatureFile(analysis) ==
    [template    |-> "feature",
     summary     |-> analysis.summary,
     ticket_key  |-> analysis.ticket_key,
     discussions |-> IF analysis.discussion_summary # <<>>
                     THEN LET ps == SplitParagraphs(analysis.discussion_summary) IN
                          FeatureDiscussionLines(SubSeq(ps, 1,
                              IF Len(ps) < MaxFeatureDiscussions
                              THEN Len(ps) ELSE MaxFeatureDiscussions))
                     ELSE <<>>,
     scenarios   |-> analysis.test_scenarios]

\* str.replace(old, new) for one-character old and new
ReplaceChar(s, old, new) == [i \in 1..Len(s) |-> IF s[i] = old THEN new ELSE s[i]]

\* analysis["ticket_key"].replace("-", "_")
ClassName(ticket_key) == ReplaceChar(ticket_key, "-", "_")

\* TestGeneratorService._generate_java_tests: its write_text calls
JavaTestWrites(analysis, output_dir) ==
    LET class_name == ClassName(analysis.ticket_key) IN
    << Write(PathJoin(output_dir, <<"S","t","e","p","D","e","f","i","n","i","t","i","o","n","s",
            ".","j","a","v","a">>),
             [template |-> "StepDefinitions.java", class_name |-> class_name]),
       Write(PathJoin(output_dir, <<"T","e","s","t","R","u","n","n","e","r",".","j","a","v","a">>),
             [template |-> "TestRunner.java", ticket_key |-> analysis.ticket_key,
              class_name |-> class_name]),
       Write(PathJoin(output_dir, <<"p","o","m",".","x","m","l">>),
             [template |-> "pom.xml",
              artifact_id |-> LowerStr(analysis.ticket_key)]) >>

\* TestGeneratorService._generate_python_tests: its write_text calls
PythonTestWrites(analysis, output_dir) ==
    << Write(PathJoin(output_dir, <<"s","t","e","p","_","d","e","f","i","n","i","t","i","o","n",
            "s",".","p","y">>),
             [template |-> "step_definitions.py"]),
       Write(PathJoin(output_dir, <<"r","e","q","u","i","r","e","m","e","n","t","s",".","t","x",
               "t">>),
             [template |-> "requirements.txt"]) >>

\* TestGeneratorService._generate_testng_xml
GenerateTestngXml(analysis) ==
    [template   |-> "testng.xml",
     ticket_key |-> analysis.ticket_key,
     class_name |-> ClassName(analysis.ticket_key)]

\* TestGeneratorService._generate_readme
GenerateReadme(analysis, language) ==
    [template   |-> "README.md",
     ticket_key |-> analysis.ticket_key,
     summary    |-> analysis.summary,
     estimated_test_count |-> analysis.estimated_test_count,
     complexity |-> analysis.complexity,
     language   |-> language,
     setup      |-> IF language = "java" THEN "java" ELSE "python",
     scenarios  |-> analysis.test_scenarios]

\* Path(output_path or self.output_dir); None and "" are both <<>>
OutputRoot(output_path) ==
    IF output_path # <<>> THEN output_path ELSE <<"g","e","n","e","r","a","t","e","d","-","t",
            "e","s","t","s">>

\* TestGeneratorService.generate_tests: its write_text calls, in order
GenerateTestsWrites(tk, language, output_path, day, seed) ==
    LET ticket_key       == tk.key
        output_directory == << OutputRoot(output_path), ticket_key >>
        Files(analysis)  ==
            << Write(PathJoin(output_directory, ticket_key \o FeatureSuffix),
                     GenerateFeatureFile(analysis)) >>
            \o (IF language = "java"
                THEN JavaTestWrites(analysis, output_directory)
                ELSE PythonTestWrites(analysis, output_directory))
            \o << Write(PathJoin(output_directory, <<"t","e","s","t","n","g",".","x","m","l">>),
                        GenerateTestngXml(analysis)),
                  Write(PathJoin(output_directory, <<"R","E","A","D","M","E",".","m","d">>),
                        GenerateReadme(analysis, language)) >>
            \o ManualTestPlanWrites(tk, analysis, output_directory, day, seed)
    \* analysis = await self.analyze_requirements(ticket), computed once
    IN  CHOOSE files \in { Files(analysis) :
                             analysis \in { AnalyzeRequirements(tk) } } : TRUE

\* the dict generate_tests returns
GenerateTestsResult(tk, writes) ==
    [success |-> TRUE,
     files   |-> Paths(writes),
     message |-> [format |-> "Generated {} files for {}",
                  count |-> Len(writes), name |-> tk.key]]

\* TestGeneratorService.generate_gherkin_features: its write_text calls
GherkinWrites(tk, output_path) ==
    IF output_path # <<>>
    THEN << Write(<< output_path, tk.key \o FeatureSuffix >>,
                  GenerateFeatureFile(AnalyzeRequirements(tk))) >>
    ELSE <<>>

\* the dict generate_gherkin_features returns
GherkinResult(tk, output_path) ==
    [success |-> TRUE,
     file    |-> IF output_path # <<>>
                 THEN << output_path, tk.key \o FeatureSuffix >>
                 ELSE << tk.key \o FeatureSuffix >>,
     content |-> GenerateFeatureFile(AnalyzeRequirements(tk))]

(***************************************************************************)
(* State                                                                   *)
(*   pc, req, ticket, result, trace   one tool invocation of server.py: the *)
(*       handler's position, its arguments, the ticket fetched so far, how  *)
(*       it ended, and the network calls and file writes it has made        *)
(*   fs                               the files on disk                    *)
(*   today, hashSeed                  the clock's date and the process's   *)
(*       string-hash seed                                                  *)
(*   arg, ret                         the arguments and the result of a    *)
(*       function of the source applied on its own                         *)
(***************************************************************************)
VARIABLES pc, req, ticket, result, trace, fs, today, hashSeed, arg, ret

vars == << pc, req, ticket, result, trace, fs, today, hashSeed, arg, ret >>

handlerVars == << pc, req, ticket, result, trace >>

\* a function applied on its own: not yet called, returned with a value, or
\* ended by raising
Pending     == [done |-> FALSE]
Returned(v) == [done |-> TRUE, raised |-> FALSE, value |-> v]
Raised(e)   == [done |-> TRUE, raised |-> TRUE, error |-> e]

\* no request, no ticket, no result
None == [kind |-> "none"]

\* no tool invocation in progress
HandlerIdle ==
    /\ pc = "idle"
    /\ req = None
    /\ ticket = None
    /\ result = Pending
    /\ trace = <<>>

(***************************************************************************)
(* _extract_test_scenarios applied to bounded inputs                       *)
(***************************************************************************)
\* the longest description, in lines
MaxDescLines == 3

\* "Given a "
LineGiven ==
    <<"G","i","v","e","n",SP,"a",SP>>
\* "when b"
LineWhen ==
    <<"w","h","e","n",SP,"b">>
\* "THEN c"
LineThen ==
    <<"T","H","E","N",SP,"c">>
\* "given "
LineGivenBare ==
    <<"g","i","v","e","n",SP>>
\* "note"
LineNote ==
    <<"n","o","t","e">>
\* "Login"
SummaryLogin ==
    <<"L","o","g","i","n">>
\* "Al: should log the failure"
DiscShould ==
    <<"A","l",":",SP,"s","h","o","u","l","d",SP,"l","o","g",SP,"t","h","e",SP,
      "f","a","i","l","u","r","e">>
\* "Bo: verify it"
DiscShort ==
    <<"B","o",":",SP,"v","e","r","i","f","y",SP,"i","t">>
\* "Bo: test cases: retry twice\n\nAl: ensure it"
DiscTwo ==
    <<"B","o",":",SP,"t","e","s","t",SP,"c","a","s","e","s",":",SP,"r","e",
      "t","r","y",SP,"t","w","i","c","e",NL,NL,"A","l",":",SP,"e","n","s","u",
      "r","e",SP,"i","t">>
\* "Al: given p\nwhen q\nthen r"
DiscGwt ==
    <<"A","l",":",SP,"g","i","v","e","n",SP,"p",NL,"w","h","e","n",SP,"q",NL,
      "t","h","e","n",SP,"r">>

DescLines == { LineGiven, LineGivenBare, LineWhen, LineThen, LineNote, <<>> }

DescriptionInputs ==
    UNION { { JoinLines(ls) : ls \in [1..n -> DescLines] } : n \in 0..MaxDescLines }

SummaryInputs == { <<>>, SummaryLogin }

DiscussionInputs == { <<>>, DiscShould, DiscShort, DiscTwo, DiscGwt }

InitExtract ==
    /\ HandlerIdle
    /\ fs = << >>
    /\ today = 0
    /\ hashSeed = 0
    /\ arg \in [description : DescriptionInputs,
                summary : SummaryInputs,
                discussion_summary : DiscussionInputs]
    /\ ret = Pending

CallExtract ==
    /\ ~ret.done
    /\ ret' = Returned(ExtractTestScenarios(arg.description, arg.summary,
                                            arg.discussion_summary))
    /\ UNCHANGED << handlerVars, fs, today, hashSeed, arg >>

SpecExtract == InitExtract /\ [][CallExtract]_vars

\* C2: _extract_test_scenarios never returns an empty list, and for an empty
\* description, summary and discussion summary it returns exactly one
\* scenario, labelled "Test " + summary, with the three fallback strings.
C2_NeverEmpty ==
    ret.done =>
      /\ Len(ret.value) >= 1
      /\ (arg.description = <<>> /\ arg.summary = <<>>
            /\ arg.discussion_summary = <<>>) =>
           /\ Len(ret.value) = 1
           /\ ret.value[1].scenario = <<"T","e","s","t",SP>> \o arg.summary
           /\ ret.value[1].given = << FallbackGiven >>
           /\ ret.value[1].when = << FallbackWhen >>
           /\ ret.value[1].then = << FallbackThen >>

\* the extractor has run on three empty inputs and returned the fallback
C2_Witness ==
    /\ ret.done
    /\ arg.description = <<>>
    /\ arg.summary = <<>>
    /\ arg.discussion_summary = <<>>
    /\ Len(ret.value) = 1
    /\ ret.value[1].when = << FallbackWhen >>

\* C3: every scenario returned by _extract_test_scenarios has at least one
\* entry in each of its given, when and then lists.
C3_StepsNonEmpty ==
    ret.done =>
      \A i \in 1..Len(ret.value) :
        /\ Len(ret.value[i].given) >= 1
        /\ Len(ret.value[i].when) >= 1
        /\ Len(ret.value[i].then) >= 1

\* the extractor has returned a given/when/then scenario whose given text is
\* empty after stripping, followed by a discussion-derived scenario
C3_Witness ==
    /\ ret.done
    /\ Len(ret.value) >= 2
    /\ ret.value[1].scenario = ScenarioPrefix \o arg.summary
    /\ ret.value[1].given = << <<>> >>
    /\ ret.value[Len(ret.value)].then = << DiscussionThen >>

\* "Email password phone date code"
DescFiveKeywords ==
    <<"E","m","a","i","l",SP,"p","a","s","s","w","o","r","d",SP,"p","h","o",
      "n","e",SP,"d","a","t","e",SP,"c","o","d","e">>
\* "id code date number phone address username password email"
DescAllKeywords ==
    <<"i","d",SP,"c","o","d","e",SP,"d","a","t","e",SP,"n","u","m","b","e",
      "r",SP,"p","h","o","n","e",SP,"a","d","d","r","e","s","s",SP,"u","s",
      "e","r","n","a","m","e",SP,"p","a","s","s","w","o","r","d",SP,"e","m",
      "a","i","l">>
\* "Enter input"
ActionEnterInput ==
    <<"E","n","t","e","r",SP,"i","n","p","u","t">>
\* "Click ok"
ActionClick ==
    <<"C","l","i","c","k",SP,"o","k">>

(***************************************************************************)
(* _extract_test_data_requirements applied to bounded inputs               *)
(***************************************************************************)
\* the longest step list
MaxSteps == 3
\* the hash seeds of a process are 0..MaxSeed
MaxSeed == 1

StepActionInputs == { ActionEnterInput, ActionClick, CleanupAction }

StepListInputs ==
    UNION { [1..n -> [step_num : {1}, action : StepActionInputs,
                      expected : {ActionExpected}, type : {"Action"}]]
            : n \in 0..MaxSteps }

DataDescriptionInputs == { <<>>, DescFiveKeywords, DescAllKeywords }

InitData ==
    /\ HandlerIdle
    /\ fs = << >>
    /\ today = 0
    /\ hashSeed \in 0..MaxSeed
    /\ arg \in [test_steps : StepListInputs, description : DataDescriptionInputs]
    /\ ret = Pending

CallData ==
    /\ ~ret.done
    /\ ret' = Returned(ExtractTestDataRequirements(arg.test_steps,
                                                   arg.description, hashSeed))
    /\ UNCHANGED << handlerVars, fs, today, hashSeed, arg >>

SpecData == InitData /\ [][CallData]_vars

\* C5: the list returned by _extract_test_data_requirements has at most 10
\* entries and no entry twice, and duplicates are removed before the cut: it
\* holds 10 entries whenever the input names 10 or more distinct requirements.
C5_DataRequirementsCapped ==
    ret.done =>
      LET raw == DataRequirements(arg.test_steps, arg.description) IN
      /\ Len(ret.value) <= 10
      /\ \A i, j \in 1..Len(ret.value) : i # j => ret.value[i] # ret.value[j]
      /\ Range(ret.value) \subseteq Range(raw)
      /\ Len(ret.value) = IF Cardinality(Range(raw)) < 10
                          THEN Cardinality(Range(raw)) ELSE 10

\* more than 10 requirements, one of them twice among the first 10, and the
\* function has returned
C5_Witness ==
    /\ ret.done
    /\ LET raw == DataRequirements(arg.test_steps, arg.description) IN
       /\ Len(raw) > 10
       /\ \E i, j \in 1..10 : i # j /\ raw[i] = raw[j]
       /\ Cardinality(Range(raw)) >= 10
       /\ Len(ret.value) = 10

(***************************************************************************)
(* _generate_manual_test_plans applied to bounded inputs                   *)
(***************************************************************************)
\* the longest scenario list of an analysis
MaxScenarios == 3
\* "AB-1"
KeyAB1 ==
    <<"A","B","-","1">>
\* "out"
RootOut ==
    <<"o","u","t">>
\* "Email login"
DescPlain ==
    <<"E","m","a","i","l",SP,"l","o","g","i","n">>

ScenarioInputs ==
    { FallbackScenario(SummaryLogin),
      TestScenario(ScenarioPrefix \o SummaryLogin,
                   << <<"a">> >>, << <<"b">> >>, << <<"c">> >>) }

TicketInputs ==
    [key : {KeyAB1},
     fields : [summary : {SummaryLogin}, description : {<<>>, DescPlain}]]

AnalysisInputs ==
    UNION { [ticket_key : {KeyAB1},
             summary : {SummaryLogin},
             discussion_summary : {DiscShould},
             test_scenarios : [1..n -> ScenarioInputs],
             estimated_test_count : {n},
             complexity : {"low"}] : n \in 0..MaxScenarios }

InitPlans ==
    /\ HandlerIdle
    /\ fs = << >>
    /\ today = 0
    /\ hashSeed = 0
    /\ arg \in [ticket : TicketInputs, analysis : AnalysisInputs,
                output_dir : {<< RootOut, KeyAB1 >>}]
    /\ ret = Pending

CallPlans ==
    /\ ~ret.done
    /\ LET writes == ManualTestPlanWrites(arg.ticket, arg.analysis,
                                          arg.output_dir, today, hashSeed)
       IN  \E failAt \in 0..Len(writes) :
             /\ fs' = WriteAll(fs, WritesMade(writes, failAt))
             /\ ret' = IF failAt = 0 THEN Returned(Paths(writes))
                       ELSE Raised([type |-> "OSError"])
    /\ UNCHANGED << handlerVars, today, hashSeed, arg >>

SpecPlans == InitPlans /\ [][CallPlans]_vars

\* the names of the 8 supplementary plans, in their order
SupplementaryNames ==
    << "Negative Test - Invalid Input Data",
       "Boundary Test - Minimum Values",
       "Boundary Test - Maximum Values",
       "Security Test - Access Control",
       "Performance Test - Response Time",
       "Usability Test - User Experience",
       "Integration Test - External Dependencies",
       "Data Validation Test - Input Constraints" >>

\* C4: for an analysis with N scenarios, _generate_manual_test_plans writes
\* and returns exactly N + 8 files, {key}_Test1.txt .. {key}_Test(N+8).txt in
\* order: the N scenario plans in scenario order, then the 8 supplementary
\* plans in their fixed order.
C4_PlanFiles ==
    (ret.done /\ ~ret.raised) =>
      LET scenarios == arg.analysis.test_scenarios
          n         == Len(scenarios)
          files     == ret.value
      IN  /\ Len(files) = n + 8
          /\ DOMAIN fs = Range(files)
          /\ Cardinality(DOMAIN fs) = n + 8
          /\ \A i \in 1..(n + 8) :
               /\ files[i] = Append(arg.output_dir,
                     arg.analysis.ticket_key \o <<"_","T","e","s","t">>
                       \o IntToStr(i) \o <<".","t","x","t">>)
               /\ fs[files[i]].test_number = i
               /\ i <= n => /\ fs[files[i]].template = "manual_test_plan"
                            /\ fs[files[i]].test_name = scenarios[i].scenario
                            /\ fs[files[i]].expected_results[1].expected
                                 = scenarios[i].then[1]
               /\ i > n => /\ fs[files[i]].template = "additional_test_plan"
                           /\ fs[files[i]].test_name = SupplementaryNames[i - n]

\* a run over three scenarios, two of them different, has returned 11 files
C4_Witness ==
    /\ ret.done
    /\ ~ret.raised
    /\ Len(arg.analysis.test_scenarios) = 3
    /\ arg.analysis.test_scenarios[1] # arg.analysis.test_scenarios[2]
    /\ Len(ret.value) = 11

(***************************************************************************)
(* Ticket client (jira_service.py)                                         *)
(***************************************************************************)
\* the issues of the tracker, by the ids a request can name: issue AB-1 is
\* reachable by its key and by its numeric id
Issues ==
    LET issue == [key    |-> KeyAB1,
                  fields |-> [summary |-> SummaryLogin, description |-> DescGwt]]
    IN  (KeyAB1 :> issue) @@ (Id10001 :> issue)

\* the comments of the tracker's issues
Comments ==
    LET comments == << [author |-> << AuthorAl >>, body |-> CommentShould],
                       [author |-> <<>>, body |-> << SP >>] >>
    IN  (KeyAB1 :> comments) @@ (Id10001 :> comments)

\* how a request to the tracker can end: a 2xx answer with its JSON body, a
\* non-2xx answer with its errorMessages, a timeout, a transport error
HttpOk(json)  == [kind |-> "ok", json |-> json, detail |-> <<>>]
HttpFailures ==
    { [kind |-> "status",    json |-> None, detail |-> << "Issue does not exist" >>],
      [kind |-> "timeout",   json |-> None, detail |-> << "timed out" >>],
      [kind |-> "transport", json |-> None, detail |-> << "connection refused" >>] }

IssueAnswers(ticket_id) ==
    (IF ticket_id \in DOMAIN Issues THEN { HttpOk(Issues[ticket_id]) } ELSE {})
    \cup HttpFailures

CommentAnswers(ticket_id) ==
    (IF ticket_id \in DOMAIN Comments THEN { HttpOk(Comments[ticket_id]) } ELSE {})
    \cup HttpFailures

\* ValueError(f"{prefix} ...: {detail}")
ValueError(prefix, detail) ==
    [type |-> "ValueError", prefix |-> prefix, detail |-> detail]

\* str(e) of the exception httpx raises for the answer
ExceptionText(answer) ==
    IF answer.kind = "status" THEN << "Client error '404 Not Found' for url" >>
    ELSE answer.detail

\* JiraService.fetch_ticket, given the tracker's answer
FetchTicket(ticket_id, answer) ==
    IF answer.kind = "ok" THEN Returned(answer.json)
    ELSE IF answer.kind = "status"
    THEN Raised(ValueError("Failed to fetch ticket", answer.detail))
    ELSE Raised(ValueError("Error fetching ticket", ExceptionText(answer)))

\* JiraService.search_tickets, given the tracker's answer
SearchTickets(jql, max_results, answer) ==
    IF answer.kind = "ok" THEN Returned(answer.json)
    ELSE Raised(ValueError("Failed to search tickets", ExceptionText(answer)))

\* JiraService.get_ticket_comments, given the tracker's answer
GetTicketComments(ticket_id, answer) ==
    IF answer.kind = "ok" THEN Returned(answer.json)
    ELSE Raised(ValueError("Failed to fetch comments", ExceptionText(answer)))

\* the discussion points of _summarize_discussions
RECURSIVE DiscussionPoints(_)
DiscussionPoints(comments) ==
    IF comments = <<>> THEN <<>>
    ELSE LET comment == Head(comments)
             author  == IF comment.author = <<>> THEN <<"U","n","k","n","o","w","n">>
                        ELSE comment.author[1]
             text    == comment.body
         IN  (IF Strip(text) # <<>>
              THEN << author \o << ":", SP >> \o Strip(text) >> ELSE <<>>)
             \o DiscussionPoints(Tail(comments))

\* "\n\n".join(discussion_points)
RECURSIVE JoinParagraphs(_)
JoinParagraphs(ps) ==
    IF ps = <<>> THEN <<>>
    ELSE IF Len(ps) = 1 THEN ps[1]
    ELSE ps[1] \o << NL, NL >> \o JoinParagraphs(Tail(ps))

\* JiraService._summarize_discussions
SummarizeDiscussions(comments) ==
    IF comments = <<>> THEN <<>> ELSE JoinParagraphs(DiscussionPoints(comments))

\* a variant of the comment step that lets the failure of the comment fetch
\* out
WithDiscussionsUnguarded(tk, fetched) ==
    IF fetched.raised THEN fetched
    ELSE Returned([key |-> tk.key, fields |-> tk.fields,
                   discussions |-> fetched.value,
                   discussion_summary |-> SummarizeDiscussions(fetched.value)])

\* JiraService.get_ticket_with_discussions after the ticket fetch: the
\* try/except around the comment fetch, and the return
WithDiscussions(tk, fetched) ==
    IF fetched.raised
    THEN Returned([key |-> tk.key, fields |-> tk.fields,
                   discussions |-> <<>>, discussion_summary |-> <<>>])
    ELSE Returned([key |-> tk.key, fields |-> tk.fields,
                   discussions |-> fetched.value,
                   discussion_summary |-> SummarizeDiscussions(fetched.value)])

(***************************************************************************)
(* Tool handlers (server.py).  A handler runs from its call to its first   *)
(* await of the tracker, then from one answer of the tracker to the next   *)
(* await or to its end; file writes are synchronous.                       *)
(***************************************************************************)
TicketIdInputs   == { KeyAB1, Id10001, KeyMissing }
LanguageInputs   == { "java", "python", "go", "Java" }
OutputPathInputs == { <<>>, RootOut }

Request(op, ticket_id, language, output_path) ==
    [kind |-> "request", op |-> op, ticket_id |-> ticket_id,
     language |-> language, output_path |-> output_path]

\* the calls a client can make, with the defaults of the parameters a tool
\* does not have
Requests ==
    { Request(op, id, "java", <<>>) :
        op \in {"fetch_jira_ticket", "analyze_ticket_requirements"},
        id \in TicketIdInputs }
    \cup { Request("generate_test_scripts", id, l, o) :
             id \in TicketIdInputs, l \in LanguageInputs, o \in OutputPathInputs }
    \cup { Request(op, id, "java", o) :
             op \in {"generate_gherkin_features", "generate_manual_test_plans"},
             id \in TicketIdInputs, o \in OutputPathInputs }
    \cup { Request("search_jira_tickets", <<"j","q","l">>, "java", <<>>) }

Call(name, target)  == [e |-> "call", name |-> name, target |-> target]
Answered(name, answer) == [e |-> "answer", name |-> name, target |-> answer.kind]

\* server.generate_test_scripts after the fetch: the language check, then
\* generate_tests
GenerateTestScriptsTail(r, tk, day, seed) ==
    IF r.language \notin {"java", "python"}
    THEN [writes |-> <<>>,
          value  |-> [success |-> FALSE,
                      message |-> [format |-> "Unsupported language: {}. Use 'java' or 'python'",
                                   language |-> r.language]]]
    ELSE LET writes == GenerateTestsWrites(tk, r.language, r.output_path, day, seed)
         IN  [writes |-> writes, value |-> GenerateTestsResult(tk, writes)]

\* server.generate_manual_test_plans after the fetch
GenerateManualTestPlansTail(r, tk, day, seed) ==
    LET output_dir == << OutputRoot(r.output_path), r.ticket_id >>
        Plans(analysis) ==
            ManualTestPlanWrites(tk, analysis, output_dir, day, seed)
        Answer(writes) ==
            [writes |-> writes,
             value  |-> [success |-> TRUE,
                         files |-> Paths(writes),
                         message |-> [format |-> "Generated {} manual test plan files for {}",
                                      count |-> Len(writes), name |-> r.ticket_id],
                         test_count |-> Len(writes)]]
    \* analysis and the list of files, each computed once
    IN  CHOOSE answer \in
            { Answer(writes) :
                writes \in { Plans(analysis) :
                               analysis \in { AnalyzeRequirements(tk) } } } : TRUE

\* what a handler does once get_ticket_with_discussions has returned tk: the
\* write_text calls it makes and the value it returns when they succeed
HandlerTail(r, tk, day, seed) ==
    CASE r.op = "fetch_jira_ticket" ->
           [writes |-> <<>>, value |-> tk]
      [] r.op = "analyze_ticket_requirements" ->
           [writes |-> <<>>, value |-> AnalyzeRequirements(tk)]
      [] r.op = "generate_test_scripts" ->
           GenerateTestScriptsTail(r, tk, day, seed)
      [] r.op = "generate_gherkin_features" ->
           [writes |-> GherkinWrites(tk, r.output_path),
            value  |-> GherkinResult(tk, r.output_path)]
      [] r.op = "generate_manual_test_plans" ->
           GenerateManualTestPlansTail(r, tk, day, seed)

\* the server after start-up: no invocation, an empty output directory
Init ==
    /\ HandlerIdle
    /\ fs = << >>
    /\ today = 0
    /\ hashSeed = 0
    /\ arg = None
    /\ ret = Pending

\* a client calls a tool; the handler runs to its first request to the tracker
Start ==
    /\ pc = "idle"
    /\ \E r \in Requests :
         /\ req' = r
         /\ IF r.op = "search_jira_tickets"
            THEN /\ pc' = "search_tickets"
                 /\ trace' = << Call("search_tickets", r.ticket_id) >>
            ELSE /\ pc' = "fetch_ticket"
                 /\ trace' = << Call("fetch_ticket", r.ticket_id) >>
    /\ UNCHANGED << ticket, result, fs, today, hashSeed, arg, ret >>

\* a variant of the ticket step that asks the tracker again after a failure
TicketResponseRetrying ==
    /\ pc = "fetch_ticket"
    /\ \E answer \in IssueAnswers(req.ticket_id) :
         LET fetched == FetchTicket(req.ticket_id, answer) IN
         IF fetched.raised
         THEN /\ pc' = "fetch_ticket"
              /\ trace' = trace \o << Answered("fetch_ticket", answer),
                                      Call("fetch_ticket", req.ticket_id) >>
              /\ UNCHANGED << ticket, result >>
         ELSE /\ pc' = "get_ticket_comments"
              /\ ticket' = fetched.value
              /\ trace' = trace \o << Answered("fetch_ticket", answer),
                                      Call("get_ticket_comments", req.ticket_id) >>
              /\ UNCHANGED result
    /\ UNCHANGED << req, fs, today, hashSeed, arg, ret >>

\* the tracker answers the ticket fetch: fetch_ticket returns and the handler
\* goes on to the comment fetch, or fetch_ticket raises and so does the handler
TicketResponse ==
    /\ pc = "fetch_ticket"
    /\ \E answer \in IssueAnswers(req.ticket_id) :
         LET fetched == FetchTicket(req.ticket_id, answer) IN
         IF fetched.raised
         THEN /\ pc' = "done"
              /\ result' = fetched
              /\ trace' = Append(trace, Answered("fetch_ticket", answer))
              /\ UNCHANGED ticket
         ELSE /\ pc' = "get_ticket_comments"
              /\ ticket' = fetched.value
              /\ trace' = trace \o << Answered("fetch_ticket", answer),
                                      Call("get_ticket_comments", req.ticket_id) >>
              /\ UNCHANGED result
    /\ UNCHANGED << req, fs, today, hashSeed, arg, ret >>

\* the tracker answers the comment fetch: get_ticket_with_discussions
\* returns, and the handler runs to its end, where a write_text may fail
CommentsResponse ==
    /\ pc = "get_ticket_comments"
    /\ \E answer \in CommentAnswers(req.ticket_id) :
         \E got \in { WithDiscussions(ticket,
                          GetTicketComments(req.ticket_id, answer)) } :
             IF got.raised
             THEN /\ result' = got
                  /\ trace' = Append(trace, Answered("get_ticket_comments", answer))
                  /\ UNCHANGED << ticket, fs >>
             ELSE \E tail \in { HandlerTail(req, got.value, today, hashSeed) } :
                  \E failAt \in 0..Len(tail.writes) :
                    LET made == WritesMade(tail.writes, failAt) IN
                    /\ ticket' = got.value
                    /\ fs' = WriteAll(fs, made)
                    /\ trace' = Append(trace, Answered("get_ticket_comments", answer))
                                 \o [i \in 1..Len(made) |->
                                       [e |-> "write", name |-> "write_text",
                                        target |-> made[i].path]]
                    /\ result' = IF failAt = 0 THEN Returned(tail.value)
                                 ELSE Raised([type |-> "OSError"])
    /\ pc' = "done"
    /\ UNCHANGED << req, today, hashSeed, arg, ret >>

\* the tracker answers the search
SearchResponse ==
    /\ pc = "search_tickets"
    /\ \E answer \in { HttpOk([total |-> 1, issues |-> << KeyAB1 >>]) } \cup HttpFailures :
         /\ result' = SearchTickets(req.ticket_id, 10, answer)
         /\ trace' = Append(trace, Answered("search_tickets", answer))
    /\ pc' = "done"
    /\ UNCHANGED << req, ticket, fs, today, hashSeed, arg, ret >>

Next ==
    \/ Start
    \/ TicketResponse
    \/ CommentsResponse
    \/ SearchResponse

Spec == Init /\ [][Next]_vars

(***************************************************************************)
(* Properties of the tool handlers                                         *)
(***************************************************************************)
\* the tracker answered the named call with a failure
Failed(name) ==
    \E i \in DOMAIN trace :
        /\ trace[i].e = "answer"
        /\ trace[i].name = name
        /\ trace[i].target # "ok"

TrackerFailed ==
    \/ Failed("fetch_ticket")
    \/ Failed("get_ticket_comments")
    \/ Failed("search_tickets")

UnsupportedLanguageRequest ==
    /\ req.kind = "request"
    /\ req.op = "generate_test_scripts"
    /\ req.language \notin {"java", "python"}

\* C1: when the ticket fetch succeeds and the comment fetch fails, in any of
\* the three ways, get_ticket_with_discussions returns the fetched ticket
\* with discussions = [] and discussion_summary = "", and no ValueError
\* leaves it.
C1_CommentFailureTolerated ==
    Failed("get_ticket_comments") =>
        /\ ticket = [key                |-> Issues[req.ticket_id].key,
                     fields             |-> Issues[req.ticket_id].fields,
                     discussions        |-> <<>>,
                     discussion_summary |-> <<>>]
        /\ result.done
        /\ ~(result.raised /\ result.error.type = "ValueError")

C1_Witness ==
    /\ pc = "done"
    /\ req.op = "fetch_jira_ticket"
    /\ Failed("get_ticket_comments")
    /\ result.done /\ ~result.raised
    /\ result.value.key = KeyAB1
    /\ result.value.discussions = <<>>
    /\ result.value.discussion_summary = <<>>

\* C8: for a language other than "java" and "python", generate_test_scripts
\* returns success = false with the "Unsupported language" message and
\* writes no file.
C8_UnsupportedLanguageReturnsFailure ==
    (pc = "done" /\ UnsupportedLanguageRequest) =>
        /\ result.done
        /\ ~result.raised
        /\ result.value.success = FALSE
        /\ result.value.message.format
             = "Unsupported language: {}. Use 'java' or 'python'"
        /\ fs = <<>>
        /\ \A i \in DOMAIN trace : trace[i].e # "write"

\* C9: an unsupported language is rejected before any work: the invocation
\* makes no call to the tracker and no write.
C9_RejectedBeforeAnyWork ==
    UnsupportedLanguageRequest =>
        \A i \in DOMAIN trace : trace[i].e \notin {"call", "write"}

\* C10: an operation whose tracker call failed does not end with the raised
\* ValueError; it returns.
C10_TrackerFailureReturned ==
    (pc = "done" /\ TrackerFailed) =>
        /\ result.done
        /\ ~(result.raised /\ result.error.type = "ValueError")

(***************************************************************************)
(* _calculate_complexity on its own: a rating, then ratings of inputs that *)
(* grow in the scenario count, the description length or both.             *)
(***************************************************************************)
MaxCount  == 7
MaxLength == 1501

InitComplexity ==
    /\ HandlerIdle
    /\ fs = << >>
    /\ today = 0
    /\ hashSeed = 0
    /\ arg \in [scenario_count : 0..MaxCount, desc_length : 0..MaxLength]
    /\ ret = Pending

Classify ==
    /\ ~ret.done
    /\ ret' = Returned(Complexity(arg.scenario_count, arg.desc_length))
    /\ UNCHANGED << handlerVars, fs, today, hashSeed, arg >>

Grow ==
    /\ ret.done
    /\ \E c \in {arg.scenario_count, arg.scenario_count + 1},
          l \in {arg.desc_length, arg.desc_length + 1} :
         /\ c <= MaxCount /\ l <= MaxLength
         /\ << c, l >> # << arg.scenario_count, arg.desc_length >>
         /\ arg' = [scenario_count |-> c, desc_length |-> l]
         /\ ret' = Returned(Complexity(c, l))
    /\ UNCHANGED << handlerVars, fs, today, hashSeed >>

SpecComplexity == InitComplexity /\ [][Classify \/ Grow]_vars

Rank(rating) ==
    CASE rating = "low" -> 0 [] rating = "medium" -> 1 [] rating = "high" -> 2

\* C7: the rating is low exactly while the count is at most 2 and the length
\* below 500, high exactly once the count exceeds 5 or the length reaches
\* 1500, medium in between; and a rating never goes down when the count and
\* the length do not.
C7_ComplexityMonotonic ==
    /\ [](ret.done =>
            /\ (ret.value = "low")
                 <=> ~(arg.scenario_count > 2 \/ arg.desc_length >= 500)
            /\ (ret.value = "high")
                 <=> (arg.scenario_count > 5 \/ arg.desc_length >= 1500)
            /\ ret.value \in {"low", "medium", "high"})
    /\ [][(ret.done /\ ret'.done) => Rank(ret'.value) >= Rank(ret.value)]_vars

C7_Witness ==
    /\ ret.done
    /\ arg.scenario_count = 2
    /\ arg.desc_length = 500
    /\ ret.value = "medium"

(***************************************************************************)
(* generate_tests run again over its own output: between two runs the date *)
(* may change and the process may be restarted, which changes the hash     *)
(* seed of its strings.  A run whose write fails raises, and is not        *)
(* followed by another.                                                    *)
(***************************************************************************)
MaxRuns == 2
MaxDay  == 1

RegenTicketInputs ==
    [key : {KeyAB1},
     fields : [summary : {SummaryLogin}, description : {DescGwt, DescFiveKeywords}],
     discussions : {<<>>},
     discussion_summary : {<<>>}]

InitRegen ==
    /\ HandlerIdle
    /\ fs = << >>
    /\ today = 0
    /\ hashSeed = 0
    /\ arg \in [ticket : RegenTicketInputs, language : {"java", "python"},
                output_path : {RootOut}]
    /\ ret = Pending

CallGenerateTests ==
    /\ Len(trace) < MaxRuns
    /\ ~(ret.done /\ ret.raised)
    /\ \E writes \in { GenerateTestsWrites(arg.ticket, arg.language,
                                            arg.output_path, today, hashSeed) } :
       \E failAt \in 0..Len(writes) :
         /\ fs' = WriteAll(fs, WritesMade(writes, failAt))
         /\ trace' = Append(trace, [e |-> "run", name |-> "generate_tests",
                                       target |-> fs'])
         /\ ret' = IF failAt = 0
                   THEN Returned(GenerateTestsResult(arg.ticket, writes))
                   ELSE Raised([type |-> "OSError"])
    /\ UNCHANGED << pc, req, ticket, result, today, hashSeed, arg >>

\* midnight passes between two runs; the days are counted from the first run
Tick ==
    /\ Len(trace) \in 1..(MaxRuns - 1)
    /\ ~(ret.done /\ ret.raised)
    /\ today < MaxDay
    /\ today' = today + 1
    /\ UNCHANGED << handlerVars, fs, hashSeed, arg, ret >>

\* the server process is started again between two runs
Restart ==
    /\ Len(trace) \in 1..(MaxRuns - 1)
    /\ ~(ret.done /\ ret.raised)
    /\ \E seed \in 0..MaxSeed :
         /\ seed # hashSeed
         /\ hashSeed' = seed
    /\ UNCHANGED << handlerVars, fs, today, arg, ret >>

SpecRegen == InitRegen /\ [][CallGenerateTests \/ Tick \/ Restart]_vars

\* C6: after a second run of generate_tests with the same ticket, language
\* and output directory, every file has the content it had after the first
\* run, whatever happened in between.
C6_RegenerationIdentical ==
    (Len(trace) = 2 /\ ret.done /\ ~ret.raised) =>
        trace[2].target = trace[1].target

(***************************************************************************)
(* Rich text (jira_service.py).  A JSON value is a dict with its "text"    *)
(* and "content" entries (Absent for a key it does not have), a list, a    *)
(* string or a number.                                                     *)
(***************************************************************************)
Absent            == [kind |-> "absent"]
Str(s)            == [kind |-> "str", v |-> s]
Num(n)            == [kind |-> "int", n |-> n]
List(items)       == [kind |-> "list", items |-> items]
Dict(text, content) == [kind |-> "dict", text |-> text, content |-> content]

\* a variant that visits a node's children before the node's own text
RECURSIVE TextPartsChildrenFirst(_)
TextPartsChildrenFirst(node) ==
    IF node.kind # "dict" THEN <<>>
    ELSE LET RECURSIVE Children(_)
             Children(cs) ==
                 IF cs = <<>> THEN <<>>
                 ELSE TextPartsChildrenFirst(Head(cs)) \o Children(Tail(cs))
         IN  (IF node.content.kind = "list" THEN Children(node.content.items)
              ELSE <<>>)
             \o (IF node.text.kind # "absent" THEN << node.text >> ELSE <<>>)

\* extract_from_node: what it appends to text_parts
RECURSIVE TextParts(_)
TextParts(node) ==
    IF node.kind # "dict" THEN <<>>
    ELSE LET RECURSIVE Children(_)
             Children(cs) ==
                 IF cs = <<>> THEN <<>>
                 ELSE TextParts(Head(cs)) \o Children(Tail(cs))
         IN  (IF node.text.kind # "absent" THEN << node.text >> ELSE <<>>)
             \o (IF node.content.kind = "list" THEN Children(node.content.items)
                 ELSE <<>>)

\* " ".join(text_parts): TypeError when an item is not a str
RECURSIVE JoinSpaces(_)
JoinSpaces(parts) ==
    IF parts = <<>> THEN <<>>
    ELSE IF Len(parts) = 1 THEN parts[1].v
    ELSE parts[1].v \o << SP >> \o JoinSpaces(Tail(parts))

StrJoin(parts) ==
    IF \E i \in DOMAIN parts : parts[i].kind # "str"
    THEN Raised([type |-> "TypeError"])
    ELSE Returned(JoinSpaces(parts))

\* JiraService._extract_text_from_adf
ExtractTextFromAdf(adf_content) == StrJoin(TextParts(adf_content))

(***************************************************************************)
(* _extract_text_from_adf on its own, over trees grown from a leaf: a node *)
(* is wrapped into a parent that may have a text of its own and a sibling  *)
(* on either side of the node.                                             *)
(***************************************************************************)
MaxDepth == 2

TextInputs == { Absent, Str(<< "a" >>), Str(<< "b" >>), Num(5) }
LeafInputs ==
    { Dict(t, c) : t \in TextInputs, c \in { Absent, Str(<< "x" >>) } }
    \cup { Str(<< "z" >>) }
SiblingInputs == { Absent, Dict(Str(<< "a" >>), Absent), Dict(Num(5), Absent),
                   Str(<< "z" >>) }

InitAdf ==
    /\ HandlerIdle
    /\ fs = << >>
    /\ today = 0
    /\ hashSeed = 0
    /\ arg \in [adf : LeafInputs, depth : {0}]
    /\ ret = Pending

CallExtractAdf ==
    /\ ~ret.done
    /\ ret' = ExtractTextFromAdf(arg.adf)
    /\ UNCHANGED << handlerVars, fs, today, hashSeed, arg >>

Wrap ==
    /\ ret.done
    /\ arg.depth < MaxDepth
    /\ \E t \in TextInputs, left \in SiblingInputs,
          right \in { Absent, Dict(Str(<< "b" >>), Absent) } :
         LET siblings(s) == IF s.kind = "absent" THEN <<>> ELSE << s >>
             parent == Dict(t, List(siblings(left) \o << arg.adf >>
                                    \o siblings(right)))
         IN  /\ arg' = [adf |-> parent, depth |-> arg.depth + 1]
             /\ ret' = ExtractTextFromAdf(parent)
    /\ UNCHANGED << handlerVars, fs, today, hashSeed >>

SpecAdf == InitAdf /\ [][CallExtractAdf \/ Wrap]_vars

\* the nodes of a tree, each named by the child indexes that lead to it
RECURSIVE NodePaths(_)
NodePaths(node) ==
    { <<>> } \cup
    (IF node.kind = "dict" /\ node.content.kind = "list"
     THEN UNION { { << i >> \o p : p \in NodePaths(node.content.items[i]) } :
                    i \in DOMAIN node.content.items }
     ELSE {})

RECURSIVE NodeAt(_, _)
NodeAt(node, path) ==
    IF path = <<>> THEN node
    ELSE NodeAt(node.content.items[Head(path)], Tail(path))

\* document order: a node before its descendants, a child's subtree before
\* the next child's
RECURSIVE DocBefore(_, _)
DocBefore(p, q) ==
    IF p = <<>> THEN q # <<>>
    ELSE IF q = <<>> THEN FALSE
    ELSE IF Head(p) = Head(q) THEN DocBefore(Tail(p), Tail(q))
    ELSE Head(p) < Head(q)

TextNodes(tree) ==
    { p \in NodePaths(tree) :
        NodeAt(tree, p).kind = "dict" /\ NodeAt(tree, p).text.kind # "absent" }

\* the texts of a tree are strings
TextsAreStrings(tree) ==
    \A p \in TextNodes(tree) : NodeAt(tree, p).text.kind = "str"

\* the text of each text node in document order, a space between two
RECURSIVE InDocumentOrder(_, _)
InDocumentOrder(tree, S) ==
    IF S = {} THEN <<>>
    ELSE LET first == CHOOSE p \in S : \A q \in S \ {p} : DocBefore(p, q)
         IN  NodeAt(tree, first).text.v
             \o (IF S = {first} THEN <<>>
                 ELSE << SP >> \o InDocumentOrder(tree, S \ {first}))

AdfExample ==
    Dict(Absent, List(<< Dict(Str(<< "a" >>), Absent),
                         Dict(Absent, List(<< Dict(Str(<< "b" >>), Absent) >>)) >>))

\* C11: for a tree whose texts are strings, _extract_text_from_adf returns
\* the texts of its nodes in document order (a node before its children,
\* children left to right) joined by single spaces; the example tree gives
\* "a b".
C11_AdfDocumentOrder ==
    (ret.done /\ TextsAreStrings(arg.adf)) =>
        /\ ~ret.raised
        /\ ret.value = InDocumentOrder(arg.adf, TextNodes(arg.adf))
        /\ (arg.adf = AdfExample => ret.value = << "a", SP, "b" >>)

C11_Witness ==
    /\ ret.done
    /\ arg.adf = AdfExample
    /\ ~ret.raised
    /\ ret.value = << "a", SP, "b" >>

\* C12: _extract_text_from_adf returns a string for every tree, and a node
\* that is no dict, a content that is no list, a text that is no string
\* contribute nothing.
C12_AdfNeverFails ==
    ret.done =>
        /\ ~ret.raised
        /\ ret.value = InDocumentOrder(arg.adf,
               { p \in TextNodes(arg.adf) :
                   NodeAt(arg.adf, p).text.kind = "str" })

(***************************************************************************)
(* _extract_test_scenarios on a description of the three lines "Given X",  *)
(* "When Y", "Then Z", with no discussion.                                 *)
(***************************************************************************)
\* "Given", "GIVEN"; "When", "when"; "Then", "tHeN"
GivenInputs == { <<"G","i","v","e","n">>,
      <<"G","I","V","E","N">> }
WhenInputs  == { <<"W","h","e","n">>,
      <<"w","h","e","n">> }
ThenInputs  == { <<"T","h","e","n">>,
      <<"t","H","e","N">> }

\* "user is logged in", " a", "when b", ""
XInputs == { <<"u","s","e","r",SP,"i","s",SP,"l","o","g","g","e","d",SP,"i","n">>,
      <<SP,"a">>,
      <<"w","h","e","n",SP,"b">>,
      <<>> }
\* "user clicks submit", "b ", "then given"
YInputs == { <<"u","s","e","r",SP,"c","l","i","c","k","s",SP,"s","u","b","m","i","t">>,
      <<"b",SP>>,
      <<"t","h","e","n",SP,"g","i","v","e","n">> }
\* "order is placed", "c", "given a"
ZInputs == { <<"o","r","d","e","r",SP,"i","s",SP,"p","l","a","c","e","d">>,
      <<"c">>,
      <<"g","i","v","e","n",SP,"a">> }

ThreeLines(kg, x, kw, y, kt, z) ==
    kg \o << SP >> \o x \o << NL >> \o kw \o << SP >> \o y \o << NL >>
       \o kt \o << SP >> \o z

InitGwt ==
    /\ HandlerIdle
    /\ fs = << >>
    /\ today = 0
    /\ hashSeed = 0
    /\ \E kg \in GivenInputs, kw \in WhenInputs, kt \in ThenInputs,
          x \in XInputs, y \in YInputs, z \in ZInputs :
         arg = [description |-> ThreeLines(kg, x, kw, y, kt, z),
                summary |-> SummaryLogin,
                discussion_summary |-> <<>>,
                x |-> x, y |-> y, z |-> z]
    /\ ret = Pending

SpecGwt == InitGwt /\ [][CallExtract]_vars

\* C13: for a description of the three lines "Given X", "When Y", "Then Z",
\* the keywords in any letter case and no discussion, _extract_test_scenarios
\* returns a scenario with given = [X], when = [Y], then = [Z], each
\* trimmed.
C13_GivenWhenThenExtracted ==
    ret.done =>
        \E i \in 1..Len(ret.value) :
            /\ ret.value[i].given = << Strip(arg.x) >>
            /\ ret.value[i].when = << Strip(arg.y) >>
            /\ ret.value[i].then = << Strip(arg.z) >>

C13_Witness ==
    /\ ret.done
    /\ arg.description = ThreeLines(<<"G","I","V","E","N">>, <<"u","s","e","r",SP,"i","s",SP,
            "l","o","g","g","e","d",SP,"i","n">>,
                                   <<"w","h","e","n">>, <<"u","s","e","r",SP,"c","l","i","c",
                                           "k","s",SP,"s","u","b","m","i","t">>,
                                   <<"t","H","e","N">>, <<"o","r","d","e","r",SP,"i","s",SP,"p",
                                           "l","a","c","e","d">>)
    /\ Len(ret.value) = 1
    /\ ret.value[1].given = << <<"u","s","e","r",SP,"i","s",SP,"l","o","g","g","e","d",SP,"i",
            "n">> >>
    /\ ret.value[1].when = << <<"u","s","e","r",SP,"c","l","i","c","k","s",SP,"s","u","b","m",
            "i","t">> >>
    /\ ret.value[1].then = << <<"o","r","d","e","r",SP,"i","s",SP,"p","l","a","c","e","d">> >>

\* C14: every file a generating operation writes lies in the directory
\* {outputRoot}/{ticketKey}/, ticketKey being the key of the fetched ticket
\* and outputRoot the call's output path or else the default.
C14_WritesUnderTicketDirectory ==
    \A i \in DOMAIN trace :
        trace[i].e = "write" =>
            /\ Len(trace[i].target) = 3
            /\ trace[i].target[1] = OutputRoot(req.output_path)
            /\ trace[i].target[2] = ticket.key

\* C15: when the tracker answers a client operation with a non-2xx status
\* that carries an error-message list, the error the operation raises holds
\* that list.
C15_ErrorMessagesSurfaced ==
    LET status == CHOOSE a \in HttpFailures : a.kind = "status" IN
    (/\ pc = "done" /\ result.done /\ result.raised
     /\ result.error.type = "ValueError"
     /\ trace[Len(trace)].e = "answer"
     /\ trace[Len(trace)].target = "status") =>
        result.error.detail = status.detail

\* C16: after a run of generate_tests that returned, the runner class that
\* testng.xml names, runners.{class_name}TestRunner, is a runner class among
\* the files generated.
C16_SuiteRunnerGenerated ==
    (Len(trace) >= 1 /\ ret.done /\ ~ret.raised) =>
        LET dir   == << OutputRoot(arg.output_path), arg.ticket.key >>
            suite == fs[PathJoin(dir, <<"t","e","s","t","n","g",".","x","m","l">>)]
        IN  \E p \in DOMAIN fs :
                /\ fs[p].template = "TestRunner.java"
                /\ fs[p].class_name = suite.class_name

(***************************************************************************)
(* The class name derived from a ticket key, over keys of letters, digits  *)
(* and other characters.                                                   *)
(***************************************************************************)
MaxKeyLen == 3

KeyChars == { "A", "b", "1", "-", "_", ".", SP }

KeyInputs == UNION { [1..n -> KeyChars] : n \in 1..MaxKeyLen }

InitClassName ==
    /\ HandlerIdle
    /\ fs = << >>
    /\ today = 0
    /\ hashSeed = 0
    /\ arg \in [ticket_key : KeyInputs]
    /\ ret = Pending

CallClassName ==
    /\ ~ret.done
    /\ ret' = Returned(ClassName(arg.ticket_key))
    /\ UNCHANGED << handlerVars, fs, today, hashSeed, arg >>

SpecClassName == InitClassName /\ [][CallClassName]_vars

\* C17: the class name derived from a ticket key holds only letters, digits
\* and underscores.
C17_ClassNameAlphanumeric ==
    ret.done =>
        \A i \in DOMAIN ret.value : ret.value[i] \in { "A", "b", "1", "_" }

\* the kinds of file of a full run, in the order the claim gives: the feature
\* file, the scaffolding of the language, the suite configuration, the
\* summary document, n scenario plans and the eight supplementary plans
RunOrder(language, n) ==
    << "feature" >>
    \o (IF language = "java"
        THEN << "StepDefinitions.java", "TestRunner.java", "pom.xml" >>
        ELSE << "step_definitions.py", "requirements.txt" >>)
    \o << "testng.xml", "README.md" >>
    \o [i \in 1..n |-> "manual_test_plan"]
    \o [i \in 1..8 |-> "additional_test_plan"]

\* C18: a run of generate_tests writes its files in the fixed order; when
\* the write of the k-th file fails the run ends with that I/O error, the
\* files before the k-th have their new content and the k-th and the later
\* ones are as they were before the run.
C18_FailedWriteAbortsRun ==
    [][trace' # trace =>
        \E writes \in { GenerateTestsWrites(arg.ticket, arg.language,
                                             arg.output_path, today, hashSeed) } :
          LET n == Len(writes) - Len(RunOrder(arg.language, 0))
              Has(w)  == w.path \in DOMAIN fs' /\ fs'[w.path] = w.content
              Kept(p) == IF p \in DOMAIN fs
                         THEN p \in DOMAIN fs' /\ fs'[p] = fs[p]
                         ELSE p \notin DOMAIN fs'
          IN  /\ [i \in 1..Len(writes) |-> writes[i].content.template]
                    = RunOrder(arg.language, n)
              /\ \A i \in 1..(n + 8) :
                    writes[Len(writes) - (n + 8) + i].path[3]
                        = PlanFileName(arg.ticket.key, i)
              /\ \/ /\ ~ret'.raised
                    /\ \A i \in 1..Len(writes) :
                          Has(writes[i])
                 \/ /\ ret'.raised
                    /\ ret'.error.type = "OSError"
                    /\ \E k \in 1..Len(writes) :
                          /\ \A i \in 1..(k - 1) :
                                Has(writes[i])
                          /\ \A i \in k..Len(writes) : Kept(writes[i].path)]_vars

\* a second run, on another day, failed before its first plan: the plan on
\* disk still carries the first run's date
C18_Witness ==
    /\ Len(trace) = 2
    /\ ret.done /\ ret.raised
    /\ today = 1
    /\ LET dir == << OutputRoot(arg.output_path), arg.ticket.key >>
           plan == fs[PathJoin(dir, PlanFileName(arg.ticket.key, 1))]
       IN  /\ PathJoin(dir, <<"t","e","s","t","n","g",".","x","m","l">>) \in DOMAIN fs
           /\ plan.created_date = GetCurrentDate(0)

(***************************************************************************)
(* The step list of _create_manual_test_plan on its own, for scenarios of  *)
(* up to MaxEntries given, when and then entries.                          *)
(***************************************************************************)
MaxEntries == 2

EntryInputs  == { << "a" >>, << "b", SP, "c" >> }
EntryListInputs == UNION { [1..n -> EntryInputs] : n \in 0..MaxEntries }

InitSteps ==
    /\ HandlerIdle
    /\ fs = << >>
    /\ today = 0
    /\ hashSeed = 0
    /\ \E g \in EntryListInputs, w \in EntryListInputs, t \in EntryListInputs :
         arg = [scenario |-> TestScenario(SummaryLogin, g, w, t)]
    /\ ret = Pending

CallBuildSteps ==
    /\ ~ret.done
    /\ ret' = Returned(BuildTestSteps(arg.scenario))
    /\ UNCHANGED << handlerVars, fs, today, hashSeed, arg >>

SpecSteps == InitSteps /\ [][CallBuildSteps]_vars

\* C19: for g given, w when and t then entries the step list has
\* g + w + t + 1 steps numbered 1..g+w+t+1: g Precondition steps, w Action
\* steps, t Validation steps whose expected is the then entry, each group in
\* the order of its entries, and one Cleanup step at the end.
C19_StepList ==
    ret.done =>
        LET steps == ret.value
            given == arg.scenario.given
            when  == arg.scenario.when
            then  == arg.scenario.then
            g == Len(given)
            w == Len(when)
            t == Len(then)
            EndsWith(s, e) == Len(s) >= Len(e)
                              /\ SubSeq(s, Len(s) - Len(e) + 1, Len(s)) = e
        IN  /\ Len(steps) = g + w + t + 1
            /\ \A i \in 1..Len(steps) : steps[i].step_num = i
            /\ \A i \in 1..g :
                  /\ steps[i].type = "Precondition"
                  /\ EndsWith(steps[i].action, given[i])
            /\ \A i \in 1..w :
                  /\ steps[g + i].type = "Action"
                  /\ Take(steps[g + i].action, Len(when[i])) = when[i]
            /\ \A i \in 1..t :
                  /\ steps[g + w + i].type = "Validation"
                  /\ steps[g + w + i].expected = then[i]
                  /\ EndsWith(steps[g + w + i].action, then[i])
            /\ steps[g + w + t + 1].type = "Cleanup"
            /\ Cardinality({ i \in 1..Len(steps) : steps[i].type = "Cleanup" }) = 1

C19_Witness ==
    /\ ret.done
    /\ Len(arg.scenario.given) = 2
    /\ Len(arg.scenario.when) = 1
    /\ Len(arg.scenario.then) = 2
    /\ arg.scenario.then[1] # arg.scenario.then[2]
    /\ Len(ret.value) = 6
    /\ ret.value[5].expected = arg.scenario.then[2]

(***************************************************************************)
(* The requests one invocation makes to the tracker                        *)
(***************************************************************************)
CallsOf(name) ==
    { i \in DOMAIN trace : trace[i].e = "call" /\ trace[i].name = name }

\* C20: an invocation that fetches a ticket issues the ticket fetch at most
\* once and the comment fetch at most once, the comment fetch only after the
\* ticket fetch was answered with the ticket; when the ticket fetch fails no
\* comment fetch is issued and the ValueError of fetch_ticket leaves
\* get_ticket_with_discussions.
C20_FetchesIssuedOnce ==
    /\ Cardinality(CallsOf("fetch_ticket")) <= 1
    /\ Cardinality(CallsOf("get_ticket_comments")) <= 1
    /\ \A i \in CallsOf("get_ticket_comments") :
          \E j \in 1..(i - 1) :
              /\ trace[j].e = "answer"
              /\ trace[j].name = "fetch_ticket"
              /\ trace[j].target = "ok"
              /\ \E k \in 1..(j - 1) : k \in CallsOf("fetch_ticket")
    /\ Failed("fetch_ticket") =>
          /\ CallsOf("get_ticket_comments") = {}
          /\ trace[Len(trace)].e = "answer"
          /\ pc = "done"
          /\ result.done
          /\ result.raised
          /\ \E answer \in IssueAnswers(req.ticket_id) :
                /\ answer.kind = trace[Len(trace)].target
                /\ result = FetchTicket(req.ticket_id, answer)

C20_Witness ==
    /\ pc = "done"
    /\ req.op = "generate_manual_test_plans"
    /\ Failed("fetch_ticket")
    /\ Len(trace) = 2
    /\ result.raised
    /\ result.error.type = "ValueError"
    /\ fs = << >>

(***************************************************************************)
(* _extract_test_scenarios on discussions of up to MaxPoints points, where *)
(* a point may be repeated and may match more than one keyword pattern     *)
(***************************************************************************)
MaxPoints == 2

\* "Al: should log failures"
PointShould ==
    <<"A","l",":",SP,"s","h","o","u","l","d",SP,"l","o","g",SP,"f","a","i","l","u","r","e","s">>
\* "Bo: test case: verify both fields"
PointTestCase ==
    <<"B","o",":",SP,"t","e","s","t",SP,"c","a","s","e",":",SP,"v","e","r","i","f","y",SP,"b",
            "o","t","h",SP,"f","i","e","l","d","s">>
\* "Cy: verify it"
PointShort ==
    <<"C","y",":",SP,"v","e","r","i","f","y",SP,"i","t">>

PointInputs == { PointShould, PointTestCase, PointShort }

PointsInputs ==
    UNION { { JoinParagraphs(ps) : ps \in [1..n -> PointInputs] } : n \in 0..MaxPoints }

InitPoints ==
    /\ HandlerIdle
    /\ fs = << >>
    /\ today = 0
    /\ hashSeed = 0
    /\ arg \in [description : { <<>>, LineNote, JoinLines(<< LineGiven, LineWhen, LineThen >>) },
                summary : SummaryInputs,
                discussion_summary : PointsInputs]
    /\ ret = Pending

SpecPoints == InitPoints /\ [][CallExtract]_vars

\* the given/when/then matches of the combined text
GwtFound ==
    FindIter(gwt_pattern, arg.description \o << NL, NL >> \o arg.discussion_summary, 1)

\* per pattern, the matches of the discussion text whose stripped group is
\* longer than 10 characters
LongMatch(m) == Len(Strip(m.caps[1])) > 10

KeywordFound ==
    [k \in 1..7 |-> FindIter(test_keywords[k], arg.discussion_summary, 1)]

\* the list is the Scenario: entries of the given/when/then matches, then
\* per pattern, in the order of the patterns, one entry per counted match
ListedPerMatch(scenarios, gwt, found) ==
    LET counted == [k \in 1..7 |-> SelectSeq(found[k], LongMatch)]
        off[k \in 0..7] == IF k = 0 THEN Len(gwt) ELSE off[k - 1] + Len(counted[k])
    IN  /\ Len(scenarios) = off[7]
        /\ \A i \in 1..Len(gwt) :
              /\ scenarios[i].scenario = ScenarioPrefix \o arg.summary
              /\ scenarios[i].given = << Strip(gwt[i].caps[1]) >>
        /\ \A k \in 1..7 : \A i \in 1..Len(counted[k]) :
              scenarios[off[k - 1] + i].when
                = << <<"U","s","e","r",SP,"p","e","r","f","o","r","m","s",":",SP>>
                     \o Take(Strip(counted[k][i].caps[1]), 150) >>

\* C21 as stated: when at least one pattern matches, the list has one
\* scenario per given/when/then match and per counted keyword match
C21_CountWhenAnyPatternMatches ==
    ret.done =>
        \E gwt \in { GwtFound } : \E found \in { KeywordFound } :
            (gwt # <<>> \/ \E k \in 1..7 : found[k] # <<>>)
                => ListedPerMatch(ret.value, gwt, found)

\* C21: the scenario list is never de-duplicated: when at least one match
\* yields a scenario, the list has one scenario per given/when/then match of
\* the combined text and one per keyword match of the discussion text whose
\* group is longer than 10 characters, counted per pattern; the
\* given/when/then scenarios first, then those of the seven patterns in
\* their order.  When no match yields a scenario the list is the fallback.
C21_NeverDeduplicated ==
    ret.done =>
        \E gwt \in { GwtFound } : \E found \in { KeywordFound } :
            IF gwt # <<>> \/ \E k \in 1..7 : \E i \in 1..Len(found[k]) : LongMatch(found[k][i])
            THEN ListedPerMatch(ret.value, gwt, found)
            ELSE ret.value = << FallbackScenario(arg.summary) >>

\* a point mentioned twice that two patterns match: four scenarios, equal in
\* pairs
C21_Witness ==
    /\ ret.done
    /\ arg.description = <<>>
    /\ arg.discussion_summary = JoinParagraphs(<< PointTestCase, PointTestCase >>)
    /\ Len(ret.value) = 4
    /\ ret.value[1] = ret.value[2]
    /\ ret.value[3] = ret.value[4]
    /\ ret.value[1] # ret.value[3]

\* C22: every scenario produced from a given/when/then match is labelled
\* with the ticket summary: its label equals the summary passed to
\* _extract_test_scenarios.
C22_LabelIsSummary ==
    ret.done =>
        \E gwt \in { GwtFound } :
            \A i \in 1..Len(gwt) : ret.value[i].scenario = arg.summary

(***************************************************************************)
(* Generation runs one after the other into the directory of one ticket:   *)
(* generate_tests for either language and the manual test plan tool, on    *)
(* the ticket as it is at the time of the run.  A run whose write fails    *)
(* ends the sequence.                                                      *)
(***************************************************************************)
MaxGenerations == 2

\* the ticket without comments and with its comments
RunTicketInputs ==
    { WithDiscussions(Issues[KeyAB1], Returned(comments)).value :
        comments \in { <<>>, Comments[KeyAB1] } }

Generated(name, made) == [e |-> "run", name |-> name, target |-> made]

InitRuns ==
    /\ HandlerIdle
    /\ fs = << >>
    /\ today = 0
    /\ hashSeed = 0
    /\ arg = None
    /\ ret = Pending

RunGenerateTests ==
    /\ Len(trace) < MaxGenerations
    /\ ~(ret.done /\ ret.raised)
    /\ \E tk \in RunTicketInputs, language \in {"java", "python"} :
       \E writes \in { GenerateTestsWrites(tk, language, RootOut, today, hashSeed) } :
       \E failAt \in 0..Len(writes) :
         LET made == WritesMade(writes, failAt) IN
         /\ arg' = [ticket |-> tk, language |-> language, output_path |-> RootOut]
         /\ fs' = WriteAll(fs, made)
         /\ trace' = Append(trace, Generated("generate_tests", made))
         /\ ret' = IF failAt = 0 THEN Returned(GenerateTestsResult(tk, writes))
                   ELSE Raised([type |-> "OSError"])
    /\ UNCHANGED << pc, req, ticket, result, today, hashSeed >>

RunManualTestPlans ==
    /\ Len(trace) < MaxGenerations
    /\ ~(ret.done /\ ret.raised)
    /\ \E tk \in RunTicketInputs :
       \E tail \in { GenerateManualTestPlansTail(
                       Request("generate_manual_test_plans", tk.key, "java", RootOut),
                       tk, today, hashSeed) } :
       \E failAt \in 0..Len(tail.writes) :
         LET made == WritesMade(tail.writes, failAt) IN
         /\ arg' = [ticket |-> tk, language |-> "java", output_path |-> RootOut]
         /\ fs' = WriteAll(fs, made)
         /\ trace' = Append(trace, Generated("generate_manual_test_plans", made))
         /\ ret' = IF failAt = 0 THEN Returned(tail.value)
                   ELSE Raised([type |-> "OSError"])
    /\ UNCHANGED << pc, req, ticket, result, today, hashSeed >>

SpecRuns == InitRuns /\ [][RunGenerateTests \/ RunManualTestPlans]_vars

\* run i wrote the file p
WrittenBy(i, p) ==
    \E k \in 1..Len(trace[i].target) : trace[i].target[k].path = p

\* C23: a generation run never deletes a file: after any sequence of runs
\* into the ticket directory, a file written by an earlier run and by no
\* later run is present with the content the earlier run gave it.
C23_NoFileDeleted ==
    \A i \in 1..Len(trace) : \A k \in 1..Len(trace[i].target) :
        LET w == trace[i].target[k] IN
        (\A j \in (i + 1)..Len(trace) : ~WrittenBy(j, w.path))
            => /\ w.path \in DOMAIN fs
               /\ fs[w.path] = w.content

\* a java run on the ticket with its comments, then a python run on the
\* ticket without them: the runner and the last plan of the first run are
\* still there, and the first plan is the second run's
C23_Witness ==
    /\ Len(trace) = 2
    /\ trace[1].name = "generate_tests"
    /\ trace[2].name = "generate_tests"
    /\ ~ret.raised
    /\ arg.language = "python"
    /\ LET dir  == << RootOut, KeyAB1 >>
           last == PathJoin(dir, PlanFileName(KeyAB1, 10))
           one  == PathJoin(dir, PlanFileName(KeyAB1, 1))
       IN  /\ WrittenBy(1, last) /\ ~WrittenBy(2, last) /\ last \in DOMAIN fs
           /\ \E k \in 1..Len(trace[1].target) :
                 /\ trace[1].target[k].path = one
                 /\ fs[one] # trace[1].target[k].content
           /\ \E p \in DOMAIN fs : ~WrittenBy(2, p) /\ fs[p].template = "TestRunner.java"

(***************************************************************************)
(* Several invocations on the one event loop.  A handler runs from the     *)
(* answer it awaited to its next await of the tracker or to its end; the   *)
(* loop resumes another handler only when the running one has reached an   *)
(* await or its end.  write_text is a plain call, one step of the running  *)
(* handler each.  Here pc, req, ticket and result hold one entry per       *)
(* invocation, and arg holds the loop: the invocation that is running (0:  *)
(* none) and, per invocation, the writes it has still to make, the number  *)
(* it has made and the value it returns after them.                        *)
(***************************************************************************)
MaxTasks == 2

Tasks == 1..MaxTasks

LoopRequests ==
    { Request("generate_test_scripts", KeyAB1, "python", RootOut),
      Request("generate_manual_test_plans", KeyAB1, "java", RootOut) }

InitLoop ==
    /\ pc = [t \in Tasks |-> "idle"]
    /\ req = [t \in Tasks |-> None]
    /\ ticket = [t \in Tasks |-> None]
    /\ result = [t \in Tasks |-> Pending]
    /\ trace = <<>>
    /\ fs = << >>
    /\ today = 0
    /\ hashSeed = 0
    /\ arg = [running |-> 0,
              pending |-> [t \in Tasks |-> <<>>],
              written |-> [t \in Tasks |-> 0],
              value   |-> [t \in Tasks |-> None]]
    /\ ret = Pending

\* no write_text call has failed so far; the behaviours followed end at the
\* first one that fails
NoWriteFailed ==
    \A t \in Tasks :
        ~(result[t].done /\ result[t].raised /\ result[t].error.type = "OSError")

\* a client calls a tool: the handler runs to `await client.get` of the
\* ticket fetch.  The invocations are numbered in the order of their calls.
LoopStart(t) ==
    /\ NoWriteFailed
    /\ arg.running = 0
    /\ pc[t] = "idle"
    /\ \A u \in 1..(t - 1) : pc[u] # "idle"
    /\ \E r \in LoopRequests : req' = [req EXCEPT ![t] = r]
    /\ pc' = [pc EXCEPT ![t] = "fetch_ticket"]
    /\ UNCHANGED << ticket, result, trace, fs, today, hashSeed, arg, ret >>

\* the ticket fetch is answered: the handler raises, or runs to
\* `await client.get` of the comment fetch
LoopTicketResponse(t) ==
    /\ NoWriteFailed
    /\ arg.running = 0
    /\ pc[t] = "fetch_ticket"
    /\ \E answer \in IssueAnswers(req[t].ticket_id) :
         LET fetched == FetchTicket(req[t].ticket_id, answer) IN
         IF fetched.raised
         THEN /\ pc' = [pc EXCEPT ![t] = "done"]
              /\ result' = [result EXCEPT ![t] = fetched]
              /\ UNCHANGED ticket
         ELSE /\ pc' = [pc EXCEPT ![t] = "get_ticket_comments"]
              /\ ticket' = [ticket EXCEPT ![t] = fetched.value]
              /\ UNCHANGED result
    /\ UNCHANGED << req, trace, fs, today, hashSeed, arg, ret >>

\* the comment fetch is answered: the handler goes on, without another
\* await, to the analysis and the files it will write
LoopCommentsResponse(t) ==
    /\ NoWriteFailed
    /\ arg.running = 0
    /\ pc[t] = "get_ticket_comments"
    /\ \E answer \in CommentAnswers(req[t].ticket_id) :
       \E got \in { WithDiscussions(ticket[t],
                        GetTicketComments(req[t].ticket_id, answer)) } :
       \E tail \in { HandlerTail(req[t], got.value, today, hashSeed) } :
         /\ ticket' = [ticket EXCEPT ![t] = got.value]
         /\ arg' = [arg EXCEPT !.running = t,
                               !.pending[t] = tail.writes,
                               !.value[t] = tail.value]
    /\ pc' = [pc EXCEPT ![t] = "writing"]
    /\ UNCHANGED << req, result, trace, fs, today, hashSeed, ret >>

\* a variant in which the handler gives the loop back after each write
LoopWriteYielding(t) ==
    /\ NoWriteFailed
    /\ arg.running \in {0, t}
    /\ pc[t] = "writing"
    /\ arg.pending[t] # <<>>
    /\ \/ /\ fs' = WriteFile(fs, Head(arg.pending[t]))
          /\ arg' = [arg EXCEPT !.running = 0,
                                !.pending[t] = Tail(@),
                                !.written[t] = @ + 1]
          /\ UNCHANGED << pc, result >>
       \/ /\ pc' = [pc EXCEPT ![t] = "done"]
          /\ result' = [result EXCEPT ![t] = Raised([type |-> "OSError"])]
          /\ arg' = [arg EXCEPT !.running = 0]
          /\ UNCHANGED fs
    /\ UNCHANGED << req, ticket, trace, today, hashSeed, ret >>

\* the running handler makes its next write_text call: the file is written,
\* or the call raises and ends the handler
LoopWrite(t) ==
    /\ NoWriteFailed
    /\ arg.running = t
    /\ pc[t] = "writing"
    /\ arg.pending[t] # <<>>
    /\ \/ /\ fs' = WriteFile(fs, Head(arg.pending[t]))
          /\ arg' = [arg EXCEPT !.pending[t] = Tail(@),
                                !.written[t] = @ + 1]
          /\ UNCHANGED << pc, result >>
       \/ /\ pc' = [pc EXCEPT ![t] = "done"]
          /\ result' = [result EXCEPT ![t] = Raised([type |-> "OSError"])]
          /\ arg' = [arg EXCEPT !.running = 0]
          /\ UNCHANGED fs
    /\ UNCHANGED << req, ticket, trace, today, hashSeed, ret >>

\* the running handler has written its files and returns
LoopReturn(t) ==
    /\ NoWriteFailed
    /\ arg.running = t
    /\ pc[t] = "writing"
    /\ arg.pending[t] = <<>>
    /\ pc' = [pc EXCEPT ![t] = "done"]
    /\ result' = [result EXCEPT ![t] = Returned(arg.value[t])]
    /\ arg' = [arg EXCEPT !.running = 0]
    /\ UNCHANGED << req, ticket, trace, fs, today, hashSeed, ret >>

SpecLoop ==
    InitLoop /\ [][\/ \E t \in Tasks : LoopStart(t)
                   \/ \E t \in Tasks : LoopTicketResponse(t)
                   \/ \E t \in Tasks : LoopCommentsResponse(t)
                   \/ \E t \in Tasks : LoopWrite(t)
                   \/ \E t \in Tasks : LoopReturn(t)]_vars

\* invocation t has made its first write and not yet its last
InWritePhase(t) ==
    /\ pc[t] = "writing"
    /\ arg.written[t] >= 1
    /\ arg.pending[t] # <<>>

\* C24: from the first file write of an invocation to its last no step of
\* another invocation runs: the other invocations stay where they are, and
\* a file that changes is the next file of the invocation that is writing.
C24_WritePhaseNotInterleaved ==
    [][\A t \in Tasks : InWritePhase(t) =>
          /\ \A u \in Tasks \ {t} :
                /\ pc'[u] = pc[u]
                /\ req'[u] = req[u]
                /\ ticket'[u] = ticket[u]
                /\ result'[u] = result[u]
                /\ arg'.pending[u] = arg.pending[u]
                /\ arg'.written[u] = arg.written[u]
          /\ fs' # fs => /\ fs' = WriteFile(fs, Head(arg.pending[t]))
                         /\ arg'.written[t] = arg.written[t] + 1]_vars

\* one invocation is between two of its writes while an invocation of the
\* other tool waits for the tracker's answer
C24_Witness ==
    \E t \in Tasks, u \in Tasks :
        /\ t # u
        /\ InWritePhase(t)
        /\ pc[u] \in {"fetch_ticket", "get_ticket_comments"}
        /\ req[u].op # req[t].op

(***************************************************************************)
(* analyze_requirements and the manual test plan tool on a ticket whose    *)
(* description is what the tracker's JSON holds: no key, null, a string or *)
(* a rich-text document.  The strings of the documents used here hold no   *)
(* quote, backslash or newline, so repr writes them as they are.           *)
(***************************************************************************)
\* repr() of a JSON value
RECURSIVE Repr(_)
Repr(v) ==
    LET RECURSIVE Items(_)
        Items(xs) == IF xs = <<>> THEN <<>>
                     ELSE IF Len(xs) = 1 THEN xs[1]
                     ELSE xs[1] \o << ",", SP >> \o Items(Tail(xs))
        Entry(key, x) == IF x = Absent THEN <<>>
                         ELSE << << "'" >> \o key \o << "'", ":", SP >> \o Repr(x) >>
    IN  CASE v.kind = "none" -> << "N", "o", "n", "e" >>
          [] v.kind = "str"  -> << "'" >> \o v.v \o << "'" >>
          [] v.kind = "int"  -> IntToStr(v.n)
          [] v.kind = "list" ->
               << "[" >> \o Items([i \in 1..Len(v.items) |-> Repr(v.items[i])]) \o << "]" >>
          [] v.kind = "dict" ->
               << "{" >> \o Items(Entry(<< "t", "e", "x", "t" >>, v.text)
                                  \o Entry(<< "c", "o", "n", "t", "e", "n", "t" >>, v.content))
                      \o << "}" >>

\* len(v)
PyLen(v) ==
    CASE v.kind = "str"  -> Returned(Len(v.v))
      [] v.kind = "list" -> Returned(Len(v.items))
      [] v.kind = "dict" -> Returned(Cardinality({ x \in { "text", "content" } :
                                (IF x = "text" THEN v.text ELSE v.content) # Absent }))
      [] OTHER           -> Raised([type |-> "TypeError"])

\* TestGeneratorService.analyze_requirements, on the description as fetched
AnalyzeRequirementsFetched(tk) ==
    LET description        == IF tk.fields.description = Absent THEN Str(<<>>)
                              ELSE tk.fields.description
        summary            == tk.fields.summary
        discussion_summary == tk.discussion_summary
        \* f"{description}\n\n{discussion_summary}"
        text        == IF description.kind = "str" THEN description.v
                       ELSE Repr(description)
        scenarios   == ExtractTestScenarios(text, summary, discussion_summary)
        desc_length == PyLen(description)
    IN  IF desc_length.raised THEN desc_length
        ELSE Returned([ticket_key           |-> tk.key,
                       summary              |-> summary,
                       discussion_summary   |-> discussion_summary,
                       test_scenarios       |-> scenarios,
                       estimated_test_count |-> Len(scenarios),
                       complexity           |-> Complexity(Len(scenarios),
                                                           desc_length.value)])

\* server.generate_manual_test_plans after the fetch, on the description as
\* fetched: _format_description calls description.replace when the
\* description is not falsy
GenerateManualTestPlansFetched(tk, output_path, day, seed) ==
    LET description == IF tk.fields.description = Absent THEN Str(<<>>)
                       ELSE tk.fields.description
        analysis    == AnalyzeRequirementsFetched(tk)
    IN  IF analysis.raised THEN analysis
        ELSE IF description.kind # "str" /\ PyLen(description).value # 0
        THEN Raised([type |-> "AttributeError"])
        ELSE Returned(Paths(ManualTestPlanWrites(
                 [key |-> tk.key,
                  fields |-> [summary |-> tk.fields.summary,
                              description |-> IF description.kind = "str"
                                              THEN description.v ELSE <<>>]],
                 analysis.value, << OutputRoot(output_path), tk.key >>, day, seed)))

FetchedDescriptionInputs ==
    { Absent, None, Str(<<>>), Str(DescGwt), Dict(Absent, Absent), AdfExample }
    \cup { Dict(Absent, List(<< leaf >>)) : leaf \in LeafInputs }

InitFetched ==
    /\ HandlerIdle
    /\ fs = << >>
    /\ today = 0
    /\ hashSeed = 0
    /\ \E d \in FetchedDescriptionInputs, s \in { <<>>, DiscShould },
          op \in { "analyze_ticket_requirements", "generate_manual_test_plans" } :
         arg = [op |-> op,
                ticket |-> [key |-> KeyAB1,
                            fields |-> [summary |-> SummaryLogin, description |-> d],
                            discussion_summary |-> s]]
    /\ ret = Pending

CallOnFetched ==
    /\ ~ret.done
    /\ ret' = IF arg.op = "analyze_ticket_requirements"
              THEN AnalyzeRequirementsFetched(arg.ticket)
              ELSE GenerateManualTestPlansFetched(arg.ticket, RootOut, today, hashSeed)
    /\ UNCHANGED << handlerVars, fs, today, hashSeed, arg >>

SpecFetched == InitFetched /\ [][CallOnFetched]_vars

\* C25: for a description that is absent, null or a rich-text document,
\* analyze_requirements and the manual test plan generation complete without
\* failing, and the scenarios are those of an empty description.
C25_DescriptionTolerated ==
    (ret.done /\ arg.ticket.fields.description.kind \in {"absent", "none", "dict"}) =>
        /\ ~ret.raised
        /\ arg.op = "analyze_ticket_requirements" =>
              ret.value.test_scenarios
                = ExtractTestScenarios(<<>>, arg.ticket.fields.summary,
                                       arg.ticket.discussion_summary)

=============================================================================
